---------------------------- MODULE Spec2Model ----------------------------
(***************************************************************************)
(* A model of the google_photos_api_client package: the paginated          *)
(* list/search generators of the album, shared-album and media-item        *)
(* clients, the batch add/remove, patch and create calls, the typed        *)
(* records with their serializer, and authentication.                      *)
(*                                                                         *)
(* Python values are tagged records: [t |-> <type name>, v |-> <payload>]. *)
(* A str is a tuple of one-character strings, a list a tuple of values, a  *)
(* dict a function from key names to values, an object a class name with   *)
(* its attribute table (__dict__).                                         *)
(***************************************************************************)
EXTENDS Integers, Sequences, FiniteSets, TLC

VARIABLES
    gen,      \* gen[i]: the frame of generator i (its arguments, locals, position)
    reqs,     \* reqs[i]: the requests generator i has executed, in order
    resps,    \* resps[i]: the responses the transport returned to generator i
    results,  \* results[i]: what each completed next() of the caller produced
    asks,     \* asks[i]: the number of next() calls the caller has made on i
    call      \* the last non-generator API call: its arguments, requests, outcome

vars == <<gen, reqs, resps, results, asks, call>>

---------------------------------------------------------------------------
(* Bounds of the model *)

\* The transport omits nextPageToken at the latest in its MaxPages-th response.
MaxPages == 3
\* The longest list of media item ids a caller passes to a batch call.
MaxIds == 52

---------------------------------------------------------------------------
(* Python values *)

PyNone == [t |-> "NoneType"]
PyStr(chars) == [t |-> "str", v |-> chars]
PyInt(n) == [t |-> "int", v |-> n]
PyBool(b) == [t |-> "bool", v |-> b]
PyList(xs) == [t |-> "list", v |-> xs]
PyDict(f) == [t |-> "dict", v |-> f]
PyEnum(cls, token) == [t |-> "enum", cls |-> cls, v |-> token]
PyObj(cls, attrs) == [t |-> "object", cls |-> cls, v |-> attrs]

\* The empty mapping (a function with no keys).
EmptyMap == [k \in {} |-> PyNone]

IsNone(x) == x.t = "NoneType"

\* Python truthiness: bool(x).
Truthy(x) ==
    CASE x.t = "NoneType" -> FALSE
      [] x.t = "str" -> Len(x.v) > 0
      [] x.t = "int" -> x.v # 0
      [] x.t = "bool" -> x.v
      [] x.t = "list" -> Len(x.v) > 0
      [] x.t = "dict" -> DOMAIN x.v # {}
      [] OTHER -> TRUE

\* dict.get(key): the value under key, None when the key is missing.
Get(d, key) == IF key \in DOMAIN d THEN d[key] ELSE PyNone

\* The outcome of a call: a returned value or a raised exception.
Ok(val) == [ok |-> TRUE, val |-> val, err |-> "none"]
Raise(err) == [ok |-> FALSE, val |-> PyNone, err |-> err]

\* A string of n characters.
Chars(n) == [k \in 1..n |-> "x"]

Digit == <<"0", "1", "2", "3", "4", "5", "6", "7", "8", "9">>
IsDigit(c) == \E d \in 1..10 : Digit[d] = c
DigitVal(c) == (CHOOSE d \in 1..10 : Digit[d] = c) - 1

RECURSIVE Digits(_)
Digits(n) == IF n < 10 THEN <<Digit[n + 1]>> ELSE Append(Digits(n \div 10), Digit[(n % 10) + 1])

RECURSIVE ParseDigits(_)
ParseDigits(cs) ==
    IF cs = <<>> THEN 0
    ELSE 10 * ParseDigits(SubSeq(cs, 1, Len(cs) - 1)) + DigitVal(cs[Len(cs)])

\* str(x) for the values the wire carries.
StrOf(x) ==
    CASE x.t = "str" -> x
      [] x.t = "NoneType" -> PyStr(<<"N", "o", "n", "e">>)
      [] x.t = "bool" -> IF x.v THEN PyStr(<<"T", "r", "u", "e">>)
                         ELSE PyStr(<<"F", "a", "l", "s", "e">>)
      [] x.t = "int" -> IF x.v < 0 THEN PyStr(<<"-">> \o Digits(-x.v)) ELSE PyStr(Digits(x.v))
      [] OTHER -> PyStr(<<"<", x.t, ">">>)

\* int(x): an int or a bool converts, a string of decimal digits is parsed,
\* another string raises ValueError and any other value TypeError.
IntOf(x) ==
    CASE x.t = "int" -> Ok(x)
      [] x.t = "bool" -> Ok(PyInt(IF x.v THEN 1 ELSE 0))
      [] x.t = "str" -> IF x.v # <<>> /\ \A k \in 1..Len(x.v) : IsDigit(x.v[k])
                        THEN Ok(PyInt(ParseDigits(x.v)))
                        ELSE Raise("ValueError")
      [] OTHER -> Raise("TypeError")

\* bool(x)
BoolOf(x) == PyBool(Truthy(x))

\* float(x): a number converts, a string of decimal digits is parsed.
FloatOf(x) ==
    CASE x.t \in {"int", "float"} -> Ok([t |-> "float", v |-> x.v])
      [] x.t = "bool" -> Ok([t |-> "float", v |-> IF x.v THEN 1 ELSE 0])
      [] x.t = "str" -> IF x.v # <<>> /\ \A k \in 1..Len(x.v) : IsDigit(x.v[k])
                        THEN Ok([t |-> "float", v |-> ParseDigits(x.v)])
                        ELSE Raise("ValueError")
      [] OTHER -> Raise("TypeError")

\* The first key of the sequence keys that mapping d lacks (0: none).
FirstMissing(d, keys) ==
    IF \A k \in 1..Len(keys) : keys[k] \in DOMAIN d THEN 0
    ELSE CHOOSE k \in 1..Len(keys) :
            /\ keys[k] \notin DOMAIN d
            /\ \A j \in 1..(k - 1) : keys[j] \in DOMAIN d

---------------------------------------------------------------------------
(* Typed records decoded from a response *)

\* Album.title "shouldn't be more than 500 characters".
MaxTitleLen == 500

\* Album.__init__(album): album is the mapping of the wire.
AlbumInit(album) ==
    IF "id" \notin DOMAIN album \/ "title" \notin DOMAIN album THEN Raise("KeyError")
    ELSE IF Len(StrOf(album["title"]).v) > MaxTitleLen THEN Raise("TypeError")
    ELSE IF FirstMissing(album, <<"productUrl", "isWritable", "mediaItemsCount">>) # 0
         THEN Raise("KeyError")
    ELSE IF ~IntOf(album["mediaItemsCount"]).ok THEN Raise(IntOf(album["mediaItemsCount"]).err)
    ELSE IF FirstMissing(album, <<"coverPhotoBaseUrl", "coverPhotoMediaItemId">>) # 0
         THEN Raise("KeyError")
    ELSE Ok(PyObj("Album", [
            id |-> StrOf(album["id"]),
            title |-> StrOf(album["title"]),
            product_url |-> StrOf(album["productUrl"]),
            is_writable |-> BoolOf(album["isWritable"]),
            media_items_count |-> IntOf(album["mediaItemsCount"]).val,
            cover_photo_base_url |-> StrOf(album["coverPhotoBaseUrl"]),
            cover_photo_media_item_id |-> StrOf(album["coverPhotoMediaItemId"])]))

\* x if x else None, with a conversion of the truthy value.
StrOrNone(x) == IF Truthy(x) THEN StrOf(x) ELSE PyNone

VideoProcessingStatus == {<<"UNSPECIFIED">>, <<"PROCESSING">>, <<"READY">>, <<"FAILED">>}

\* Video.__init__(video)
VideoInit(video) ==
    LET fps == Get(video, "fps")
        status == Get(video, "status")
    IN  IF Truthy(fps) /\ ~FloatOf(fps).ok THEN Raise(FloatOf(fps).err)
        ELSE IF Truthy(status) /\ ~(status.t = "str" /\ status.v \in VideoProcessingStatus)
             THEN Raise("ValueError")
        ELSE Ok(PyObj("Video", [
                camera_make |-> StrOrNone(Get(video, "cameraMake")),
                camera_model |-> StrOrNone(Get(video, "cameraModel")),
                fps |-> IF Truthy(fps) THEN FloatOf(fps).val ELSE PyNone,
                status |-> IF Truthy(status) THEN PyEnum("VideoProcessingStatus", status.v)
                           ELSE PyNone]))

\* Photo.__init__(photo)
PhotoInit(photo) ==
    LET focal_length == Get(photo, "focalLength")
        aperture_f_number == Get(photo, "apertureFNumber")
        iso_equivalent == Get(photo, "isoEquivalent")
        exposure_time == StrOrNone(Get(photo, "exposureTime"))
    IN  IF Truthy(focal_length) /\ ~FloatOf(focal_length).ok
        THEN Raise(FloatOf(focal_length).err)
        ELSE IF Truthy(aperture_f_number) /\ ~FloatOf(aperture_f_number).ok
        THEN Raise(FloatOf(aperture_f_number).err)
        ELSE IF Truthy(iso_equivalent) /\ ~IntOf(iso_equivalent).ok
        THEN Raise(IntOf(iso_equivalent).err)
        ELSE IF Truthy(exposure_time) /\ exposure_time.v[Len(exposure_time.v)] # "s"
        THEN Raise("TypeError")
        ELSE Ok(PyObj("Photo", [
                camera_make |-> StrOrNone(Get(photo, "cameraMake")),
                camera_model |-> StrOrNone(Get(photo, "cameraModel")),
                focal_length |-> IF Truthy(focal_length) THEN FloatOf(focal_length).val
                                 ELSE PyNone,
                aperture_f_number |-> IF Truthy(aperture_f_number)
                                      THEN FloatOf(aperture_f_number).val ELSE PyNone,
                iso_equivalent |-> IF Truthy(iso_equivalent) THEN IntOf(iso_equivalent).val
                                   ELSE PyNone,
                exposure_time |-> exposure_time]))

\* A MediaMetadata that reads the video whether or not a photo was given.
MediaMetadataInitReadsBoth(media_metadata) ==
    LET photo == Get(media_metadata, "photo")
        video == Get(media_metadata, "video")
    IN  IF FirstMissing(media_metadata, <<"creationTime", "width", "height">>) # 0
        THEN Raise("KeyError")
        ELSE IF Truthy(photo) /\ ~PhotoInit(photo.v).ok THEN Raise(PhotoInit(photo.v).err)
        ELSE IF Truthy(video) /\ ~VideoInit(video.v).ok THEN Raise(VideoInit(video.v).err)
        ELSE IF ~Truthy(photo) /\ ~Truthy(video) THEN Raise("TypeError")
        ELSE Ok(PyObj("MediaMetadata",
                      [creation_time |-> StrOf(media_metadata["creationTime"]),
                       width |-> StrOf(media_metadata["width"]),
                       height |-> StrOf(media_metadata["height"]),
                       photo |-> IF Truthy(photo) THEN PhotoInit(photo.v).val ELSE PyNone,
                       video |-> IF Truthy(video) THEN VideoInit(video.v).val ELSE PyNone]))

\* MediaMetadata.__init__(media_metadata): the video attribute is assigned
\* only when no photo was given.
MediaMetadataInit(media_metadata) ==
    LET photo == Get(media_metadata, "photo")
        video == Get(media_metadata, "video")
        self_photo == IF Truthy(photo) THEN PhotoInit(photo.v).val ELSE PyNone
        self_video == IF Truthy(video) THEN VideoInit(video.v).val ELSE PyNone
        base == [creation_time |-> StrOf(media_metadata["creationTime"]),
                 width |-> StrOf(media_metadata["width"]),
                 height |-> StrOf(media_metadata["height"]),
                 photo |-> self_photo]
    IN  IF FirstMissing(media_metadata, <<"creationTime", "width", "height">>) # 0
        THEN Raise("KeyError")
        ELSE IF Truthy(photo) /\ ~PhotoInit(photo.v).ok THEN Raise(PhotoInit(photo.v).err)
        ELSE IF ~IsNone(self_photo) THEN Ok(PyObj("MediaMetadata", base))
        ELSE IF Truthy(video) /\ ~VideoInit(video.v).ok THEN Raise(VideoInit(video.v).err)
        ELSE IF IsNone(self_video) THEN Raise("TypeError")
        ELSE Ok(PyObj("MediaMetadata",
                      [k \in DOMAIN base \cup {"video"} |->
                          IF k = "video" THEN self_video ELSE base[k]]))

\* ContributorInfo.__init__(contributor_info)
ContributorInfoInit(contributor_info) ==
    IF FirstMissing(contributor_info, <<"profilePictureBaseUrl", "displayName">>) # 0
    THEN Raise("KeyError")
    ELSE Ok(PyObj("ContributorInfo", [
            profile_picture_base_url |-> StrOf(contributor_info["profilePictureBaseUrl"]),
            display_name |-> StrOf(contributor_info["displayName"])]))

\* MediaItem.__init__(media_item): mime_type is the literal 'mimeType', and
\* the contributorInfo key is subscripted, not looked up with get.
MediaItemInit(media_item) ==
    LET contributor_info == media_item["contributorInfo"]
    IN  IF FirstMissing(media_item, <<"id", "description", "productUrl", "baseUrl",
                                      "mediaMetadata">>) # 0
        THEN Raise("KeyError")
        ELSE IF ~MediaMetadataInit(media_item["mediaMetadata"].v).ok
        THEN Raise(MediaMetadataInit(media_item["mediaMetadata"].v).err)
        ELSE IF "contributorInfo" \notin DOMAIN media_item THEN Raise("KeyError")
        ELSE IF Truthy(contributor_info) /\ ~ContributorInfoInit(contributor_info.v).ok
        THEN Raise(ContributorInfoInit(contributor_info.v).err)
        ELSE IF "filename" \notin DOMAIN media_item THEN Raise("KeyError")
        ELSE Ok(PyObj("MediaItem", [
                id |-> StrOf(media_item["id"]),
                description |-> StrOf(media_item["description"]),
                product_url |-> StrOf(media_item["productUrl"]),
                base_url |-> StrOf(media_item["baseUrl"]),
                mime_type |-> PyStr(<<"m", "i", "m", "e", "T", "y", "p", "e">>),
                media_metadata |-> MediaMetadataInit(media_item["mediaMetadata"].v).val,
                contributor_info |-> IF Truthy(contributor_info)
                                     THEN ContributorInfoInit(contributor_info.v).val
                                     ELSE PyNone,
                filename |-> StrOf(media_item["filename"])]))

---------------------------------------------------------------------------
(* Typed records a caller builds for a request *)

\* [Cls(x) for x in xs], given what each Cls(x) gives: the list of the
\* records built, or the first exception.
ListOf(built) ==
    IF \A k \in 1..Len(built) : built[k].ok
    THEN Ok(PyList([k \in 1..Len(built) |-> built[k].val]))
    ELSE Raise(built[CHOOSE k \in 1..Len(built) :
                        ~built[k].ok /\ \A j \in 1..(k - 1) : built[j].ok].err)

\* EnumClass(value): the member whose value is value, else ValueError.
EnumOf(cls, members, value) ==
    IF value.t = "str" /\ value.v \in members THEN Ok(PyEnum(cls, value.v))
    ELSE Raise("ValueError")

\* NewMediaItem.description "shouldn't be more than 1000 characters".
MaxDescriptionLen == 1000

\* SimpleMediaItem.__init__(simple_media_item): the token is read under the
\* key 'upload_token'.
SimpleMediaItemInit(simple_media_item) ==
    IF "upload_token" \notin DOMAIN simple_media_item THEN Raise("KeyError")
    ELSE Ok(PyObj("SimpleMediaItem", [
            upload_token |-> StrOf(simple_media_item["upload_token"]),
            file_name |-> StrOrNone(Get(simple_media_item, "fileName"))]))

\* A bound check that is off by one.
DescriptionAtLeastMax(description) == Len(description.v) >= MaxDescriptionLen

\* if len(self.description) > 1000: raise TypeError
DescriptionTooLong(description) == Len(description.v) > MaxDescriptionLen

\* NewMediaItem.__init__(new_media_item)
NewMediaItemInit(new_media_item) ==
    IF "description" \notin DOMAIN new_media_item THEN Raise("KeyError")
    ELSE IF DescriptionTooLong(StrOf(new_media_item["description"])) THEN Raise("TypeError")
    ELSE IF "simpleMediaItem" \notin DOMAIN new_media_item THEN Raise("KeyError")
    ELSE IF ~SimpleMediaItemInit(new_media_item["simpleMediaItem"].v).ok
         THEN Raise(SimpleMediaItemInit(new_media_item["simpleMediaItem"].v).err)
    ELSE Ok(PyObj("NewMediaItem", [
            description |-> StrOf(new_media_item["description"]),
            simple_media_item |->
                SimpleMediaItemInit(new_media_item["simpleMediaItem"].v).val]))

\* "The latitude in degrees. It must be in the range [-90.0, +90.0]."
MinLatitude == -90
MaxLatitude == 90
\* "The longitude in degrees. It must be in the range [-180.0, +180.0]."
MinLongitude == -180
MaxLongitude == 180

\* A range check that leaves out the two ends of the range.
LatitudeOnOrOutOfRange(latitude) == latitude <= MinLatitude \/ latitude >= MaxLatitude

\* if self.latitude < (-90.0) or self.latitude > 90.0: raise TypeError
LatitudeOutOfRange(latitude) == latitude < MinLatitude \/ latitude > MaxLatitude
\* if self.longitude < (-180.0) or self.longitude > 180.0: raise TypeError
LongitudeOutOfRange(longitude) == longitude < MinLongitude \/ longitude > MaxLongitude

\* LatLng.__init__(lat_lng)
LatLngInit(lat_lng) ==
    IF "latitude" \notin DOMAIN lat_lng THEN Raise("KeyError")
    ELSE IF ~FloatOf(lat_lng["latitude"]).ok THEN Raise(FloatOf(lat_lng["latitude"]).err)
    ELSE IF LatitudeOutOfRange(FloatOf(lat_lng["latitude"]).val.v) THEN Raise("TypeError")
    ELSE IF "longitude" \notin DOMAIN lat_lng THEN Raise("KeyError")
    ELSE IF ~FloatOf(lat_lng["longitude"]).ok THEN Raise(FloatOf(lat_lng["longitude"]).err)
    ELSE IF LongitudeOutOfRange(FloatOf(lat_lng["longitude"]).val.v) THEN Raise("TypeError")
    ELSE Ok(PyObj("LatLng", [latitude |-> FloatOf(lat_lng["latitude"]).val,
                             longitude |-> FloatOf(lat_lng["longitude"]).val]))

\* Location.__init__(location)
LocationInit(location) ==
    IF FirstMissing(location, <<"locationName", "latlng">>) # 0 THEN Raise("KeyError")
    ELSE IF ~LatLngInit(location["latlng"].v).ok
         THEN Raise(LatLngInit(location["latlng"].v).err)
    ELSE Ok(PyObj("Location", [location_name |-> StrOf(location["locationName"]),
                               latlng |-> LatLngInit(location["latlng"].v).val]))

\* LocationEnrichment.__init__(location_enrichment)
LocationEnrichmentInit(location_enrichment) ==
    IF "location" \notin DOMAIN location_enrichment THEN Raise("KeyError")
    ELSE IF ~LocationInit(location_enrichment["location"].v).ok
         THEN Raise(LocationInit(location_enrichment["location"].v).err)
    ELSE Ok(PyObj("LocationEnrichment",
                  [location |-> LocationInit(location_enrichment["location"].v).val]))

\* MapEnrichment.__init__(map_enrichment)
MapEnrichmentInit(map_enrichment) ==
    IF "origin" \notin DOMAIN map_enrichment THEN Raise("KeyError")
    ELSE IF ~LocationInit(map_enrichment["origin"].v).ok
         THEN Raise(LocationInit(map_enrichment["origin"].v).err)
    ELSE IF "destination" \notin DOMAIN map_enrichment THEN Raise("KeyError")
    ELSE IF ~LocationInit(map_enrichment["destination"].v).ok
         THEN Raise(LocationInit(map_enrichment["destination"].v).err)
    ELSE Ok(PyObj("MapEnrichment",
                  [origin |-> LocationInit(map_enrichment["origin"].v).val,
                   destination |-> LocationInit(map_enrichment["destination"].v).val]))

\* TextEnrichment.__init__(text_enrichment): self.text = text_enrichment['text']
TextEnrichmentInit(text_enrichment) ==
    IF "text" \notin DOMAIN text_enrichment THEN Raise("KeyError")
    ELSE Ok(PyObj("TextEnrichment", [text |-> text_enrichment["text"]]))

\* all(attribute is None for attribute in
\*     (text_enrichment, location_enrichment, map_enrichment)),
\* on the values .get() returned.
NoEnrichmentGiven(text_enrichment, location_enrichment, map_enrichment) ==
    IsNone(text_enrichment) /\ IsNone(location_enrichment) /\ IsNone(map_enrichment)

\* NewEnrichmentItem.__init__(new_enrichment_item)
NewEnrichmentItemInit(new_enrichment_item) ==
    LET text_enrichment == Get(new_enrichment_item, "textEnrichment")
        location_enrichment == Get(new_enrichment_item, "locationEnrichment")
        map_enrichment == Get(new_enrichment_item, "mapEnrichment")
        text == IF Truthy(text_enrichment) THEN TextEnrichmentInit(text_enrichment.v)
                ELSE Ok(PyNone)
        location == IF Truthy(location_enrichment)
                    THEN LocationEnrichmentInit(location_enrichment.v) ELSE Ok(PyNone)
        map == IF Truthy(map_enrichment) THEN MapEnrichmentInit(map_enrichment.v)
               ELSE Ok(PyNone)
    IN  IF ~text.ok THEN Raise(text.err)
        ELSE IF ~location.ok THEN Raise(location.err)
        ELSE IF ~map.ok THEN Raise(map.err)
        ELSE IF NoEnrichmentGiven(text_enrichment, location_enrichment, map_enrichment)
             THEN Raise("TypeError")
        ELSE Ok(PyObj("NewEnrichmentItem", [text_enrichment |-> text.val,
                                            location_enrichment |-> location.val,
                                            map_enrichment |-> map.val]))

PositionType ==
    {<<"POSITION_TYPE_UNSPECIFIED">>, <<"FIRST_IN_ALBUM">>, <<"LAST_IN_ALBUM">>,
     <<"AFTER_MEDIA_ITEM">>, <<"AFTER_ENRICHMENT_ITEM">>}

\* if self.relative_media_item_id is None and self.relative_enrichment_item_id:
\*     raise TypeError
RelativeIdRejected(relative_media_item_id, relative_enrichment_item_id) ==
    IsNone(relative_media_item_id) /\ Truthy(relative_enrichment_item_id)

\* AlbumPosition.__init__(album_position)
AlbumPositionInit(album_position) ==
    LET relative_media_item_id == StrOrNone(Get(album_position, "relativeMediaItemId"))
        relative_enrichment_item_id ==
            StrOrNone(Get(album_position, "relativeEnrichmentItemId"))
    IN  IF "position" \notin DOMAIN album_position THEN Raise("KeyError")
        ELSE IF ~EnumOf("PositionType", PositionType, album_position["position"]).ok
             THEN Raise("ValueError")
        ELSE IF RelativeIdRejected(relative_media_item_id, relative_enrichment_item_id)
             THEN Raise("TypeError")
        ELSE Ok(PyObj("AlbumPosition", [
                position |-> EnumOf("PositionType", PositionType,
                                    album_position["position"]).val,
                relative_media_item_id |-> relative_media_item_id,
                relative_enrichment_item_id |-> relative_enrichment_item_id]))

\* dict(x): a mapping is copied, an empty sequence gives {}, a sequence of
\* anything but pairs raises ValueError and a value that cannot be iterated
\* TypeError.
DictOf(x) ==
    CASE x.t = "dict" -> Ok(x)
      [] x.t \in {"str", "list", "tuple"} ->
            IF Len(x.v) = 0 THEN Ok(PyDict(EmptyMap)) ELSE Raise("ValueError")
      [] OTHER -> Raise("TypeError")

\* Status.__init__(status)
StatusInit(status) ==
    IF "code" \notin DOMAIN status THEN Raise("KeyError")
    ELSE IF ~IntOf(status["code"]).ok THEN Raise(IntOf(status["code"]).err)
    ELSE IF "message" \notin DOMAIN status THEN Raise("KeyError")
    ELSE IF "details" \notin DOMAIN status THEN Raise("KeyError")
    ELSE IF ~DictOf(status["details"]).ok THEN Raise(DictOf(status["details"]).err)
    ELSE Ok(PyObj("Status", [code |-> IntOf(status["code"]).val,
                             message |-> StrOf(status["message"]),
                             details |-> DictOf(status["details"]).val]))

\* NewMediaItemResult.__init__(new_media_item_result)
NewMediaItemResultInit(new_media_item_result) ==
    LET status == Get(new_media_item_result, "status")
        media_item == Get(new_media_item_result, "mediaItem")
        built_status == IF Truthy(status) THEN StatusInit(status.v) ELSE Ok(PyNone)
        built_item == IF Truthy(media_item) THEN MediaItemInit(media_item.v) ELSE Ok(PyNone)
    IN  IF "uploadToken" \notin DOMAIN new_media_item_result THEN Raise("KeyError")
        ELSE IF ~built_status.ok THEN Raise(built_status.err)
        ELSE IF ~built_item.ok THEN Raise(built_item.err)
        ELSE Ok(PyObj("NewMediaItemResult", [
                upload_token |-> StrOf(new_media_item_result["uploadToken"]),
                status |-> built_status.val,
                media_item |-> built_item.val]))

\* Date.__init__(date)
DateInit(date) ==
    LET year == IntOf(date["year"])
        month == IntOf(date["month"])
        day == IntOf(date["day"])
    IN  IF "year" \notin DOMAIN date THEN Raise("KeyError")
        ELSE IF ~year.ok THEN Raise(year.err)
        ELSE IF year.val.v < 0 \/ year.val.v > 9999 THEN Raise("TypeError")
        ELSE IF "month" \notin DOMAIN date THEN Raise("KeyError")
        ELSE IF ~month.ok THEN Raise(month.err)
        ELSE IF month.val.v < 0 \/ month.val.v > 12 THEN Raise("TypeError")
        ELSE IF "day" \notin DOMAIN date THEN Raise("KeyError")
        ELSE IF ~day.ok THEN Raise(day.err)
        ELSE IF day.val.v < 0 \/ day.val.v > 31 THEN Raise("TypeError")
        ELSE IF \/ (year.val.v = 0 /\ month.val.v = 0 /\ day.val.v = 0)
                \/ (year.val.v # 0 /\ month.val.v = 0 /\ day.val.v # 0)
                \/ (day.val.v = 0 /\ year.val.v = 0)
        THEN Raise("TypeError")
        ELSE Ok(PyObj("Date", [year |-> year.val, month |-> month.val, day |-> day.val]))

\* DateRange.__init__(date_range)
DateRangeInit(date_range) ==
    IF "startDate" \notin DOMAIN date_range THEN Raise("KeyError")
    ELSE IF ~DateInit(date_range["startDate"].v).ok
         THEN Raise(DateInit(date_range["startDate"].v).err)
    ELSE IF "endDate" \notin DOMAIN date_range THEN Raise("KeyError")
    ELSE IF ~DateInit(date_range["endDate"].v).ok
         THEN Raise(DateInit(date_range["endDate"].v).err)
    ELSE Ok(PyObj("DateRange", [start_date |-> DateInit(date_range["startDate"].v).val,
                                end_date |-> DateInit(date_range["endDate"].v).val]))

\* [Date(date) for date in dates]
Dates(dates) == ListOf([k \in 1..Len(dates.v) |-> DateInit(dates.v[k].v)])
\* [DateRange(range) for range in ranges]
DateRanges(ranges) == ListOf([k \in 1..Len(ranges.v) |-> DateRangeInit(ranges.v[k].v)])

\* "A maximum of 5 dates can be included per request", and of 5 ranges.
MaxDates == 5
MaxRanges == 5

\* DateFilter.__init__(date_filter): len() is taken of self.dates and of
\* self.ranges also when they are None.
DateFilterInit(date_filter) ==
    LET dates == Get(date_filter, "dates")
        ranges == Get(date_filter, "ranges")
    IN  IF Truthy(dates) /\ ~Dates(dates).ok THEN Raise(Dates(dates).err)
        ELSE IF ~Truthy(dates) THEN Raise("TypeError")
        ELSE IF Len(dates.v) > MaxDates THEN Raise("TypeError")
        ELSE IF Truthy(ranges) /\ ~DateRanges(ranges).ok
             THEN Raise(DateRanges(ranges).err)
        ELSE IF ~Truthy(ranges) THEN Raise("TypeError")
        ELSE IF Len(ranges.v) > MaxRanges THEN Raise("TypeError")
        ELSE Ok(PyObj("DateFilter", [dates |-> Dates(dates).val,
                                     ranges |-> DateRanges(ranges).val]))

ContentCategory ==
    {<<c>> : c \in {"NONE", "LANDSCAPES", "RECEIPTS", "CITYSCAPES", "LANDMARKS", "SELFIES",
                    "PEOPLE", "PETS", "WEDDINGS", "BIRTHDAYS", "DOCUMENTS", "TRAVEL",
                    "ANIMALS", "FOOD", "SPORT", "NIGHT", "PERFORMANCES", "WHITEBOARDS",
                    "SCREENSHOTS", "UTILITY", "ARTS", "CRAFTS", "FASHION", "HOUSES",
                    "GARDENS", "FLOWERS", "HOLIDAYS"}}
\* [ContentCategory(content_category) for content_category in categories]
ContentCategories(categories) ==
    ListOf([k \in 1..Len(categories.v) |->
               EnumOf("ContentCategory", ContentCategory, categories.v[k])])

\* ContentFilter.__init__(content_filter)
ContentFilterInit(content_filter) ==
    LET included == Get(content_filter, "includedContentCategories")
        excluded == Get(content_filter, "excludedContentCategories")
    IN  IF Truthy(included) /\ ~ContentCategories(included).ok
        THEN Raise(ContentCategories(included).err)
        ELSE IF ~Truthy(included) THEN Raise("TypeError")
        ELSE IF Len(included.v) > 10 THEN Raise("TypeError")
        ELSE IF Truthy(excluded) /\ ~ContentCategories(excluded).ok
        THEN Raise(ContentCategories(excluded).err)
        ELSE IF ~Truthy(excluded) THEN Raise("TypeError")
        ELSE IF Len(excluded.v) > 10 THEN Raise("TypeError")
        ELSE Ok(PyObj("ContentFilter", [
                included_content_categories |-> ContentCategories(included).val,
                excluded_content_categories |-> ContentCategories(excluded).val]))

MediaType == {<<"ALL_MEDIA">>, <<"VIDEO">>, <<"PHOTO">>}
\* [MediaType(media_type) for media_type in media_types]
MediaTypes(media_types) ==
    ListOf([k \in 1..Len(media_types.v) |-> EnumOf("MediaType", MediaType, media_types.v[k])])

\* MediaTypeFilter.__init__(media_type_filter)
MediaTypeFilterInit(media_type_filter) ==
    IF "mediaTypes" \notin DOMAIN media_type_filter THEN Raise("KeyError")
    ELSE IF ~MediaTypes(media_type_filter["mediaTypes"]).ok
         THEN Raise(MediaTypes(media_type_filter["mediaTypes"]).err)
    ELSE IF Len(media_type_filter["mediaTypes"].v) # 1 THEN Raise("TypeError")
    ELSE Ok(PyObj("MediaTypeFilter",
                  [media_types |-> MediaTypes(media_type_filter["mediaTypes"]).val]))

Feature == {<<"NONE">>, <<"FAVORITES">>}
\* [Feature(feature) for feature in features]
Features(features) ==
    ListOf([k \in 1..Len(features.v) |-> EnumOf("Feature", Feature, features.v[k])])

\* FeatureFilter.__init__(feature_filter)
FeatureFilterInit(feature_filter) ==
    IF "includedFeatures" \notin DOMAIN feature_filter THEN Raise("KeyError")
    ELSE IF ~Features(feature_filter["includedFeatures"]).ok
         THEN Raise(Features(feature_filter["includedFeatures"]).err)
    ELSE Ok(PyObj("FeatureFilter", [
            included_features |-> Features(feature_filter["includedFeatures"]).val]))

\* Filters.__init__(filters)
FiltersInit(filters) ==
    LET date_filter == IF Truthy(Get(filters, "dateFilter"))
                THEN DateFilterInit(Get(filters, "dateFilter").v) ELSE Ok(PyNone)
        content_filter == IF Truthy(Get(filters, "contentFilter"))
                THEN ContentFilterInit(Get(filters, "contentFilter").v) ELSE Ok(PyNone)
        media_type_filter == IF Truthy(Get(filters, "mediaTypeFilter"))
                THEN MediaTypeFilterInit(Get(filters, "mediaTypeFilter").v) ELSE Ok(PyNone)
        feature_filter == IF Truthy(Get(filters, "featureFilter"))
                THEN FeatureFilterInit(Get(filters, "featureFilter").v) ELSE Ok(PyNone)
        include_archived_media == Get(filters, "includeArchivedMedia")
        exclude_non_app_created_data == Get(filters, "excludeNonAppCreatedData")
    IN  IF ~date_filter.ok THEN Raise(date_filter.err)
        ELSE IF ~content_filter.ok THEN Raise(content_filter.err)
        ELSE IF ~media_type_filter.ok THEN Raise(media_type_filter.err)
        ELSE IF ~feature_filter.ok THEN Raise(feature_filter.err)
        ELSE Ok(PyObj("Filters", [
                date_filter |-> date_filter.val,
                content_filter |-> content_filter.val,
                media_type_filter |-> media_type_filter.val,
                feature_filter |-> feature_filter.val,
                include_archived_media |->
                    IF Truthy(include_archived_media) THEN BoolOf(include_archived_media)
                    ELSE PyNone,
                exclude_non_app_created_data |->
                    IF Truthy(exclude_non_app_created_data)
                    THEN BoolOf(exclude_non_app_created_data) ELSE PyNone]))

---------------------------------------------------------------------------
(* Serializer *)

\* snake_case_to_camel_case, tabulated over the attribute names of the
\* records that are serialized here.
snake_case_to_camel_case(key) ==
    CASE key = "date_filter" -> "dateFilter"
      [] key = "content_filter" -> "contentFilter"
      [] key = "media_type_filter" -> "mediaTypeFilter"
      [] key = "feature_filter" -> "featureFilter"
      [] key = "include_archived_media" -> "includeArchivedMedia"
      [] key = "exclude_non_app_created_data" -> "excludeNonAppCreatedData"
      [] key = "media_types" -> "mediaTypes"
      [] key = "included_features" -> "includedFeatures"
      [] key = "included_content_categories" -> "includedContentCategories"
      [] key = "excluded_content_categories" -> "excludedContentCategories"
      [] key = "start_date" -> "startDate"
      [] key = "end_date" -> "endDate"
      [] key = "product_url" -> "productUrl"
      [] key = "is_writable" -> "isWritable"
      [] key = "media_items_count" -> "mediaItemsCount"
      [] key = "cover_photo_base_url" -> "coverPhotoBaseUrl"
      [] key = "cover_photo_media_item_id" -> "coverPhotoMediaItemId"
      [] key = "base_url" -> "baseUrl"
      [] key = "mime_type" -> "mimeType"
      [] key = "media_metadata" -> "mediaMetadata"
      [] key = "contributor_info" -> "contributorInfo"
      [] key = "creation_time" -> "creationTime"
      [] key = "camera_make" -> "cameraMake"
      [] key = "camera_model" -> "cameraModel"
      [] key = "focal_length" -> "focalLength"
      [] key = "aperture_f_number" -> "apertureFNumber"
      [] key = "iso_equivalent" -> "isoEquivalent"
      [] key = "exposure_time" -> "exposureTime"
      [] key = "profile_picture_base_url" -> "profilePictureBaseUrl"
      [] key = "display_name" -> "displayName"
      [] key = "upload_token" -> "uploadToken"
      [] key = "file_name" -> "fileName"
      [] key = "simple_media_item" -> "simpleMediaItem"
      [] key = "location_name" -> "locationName"
      [] key = "text_enrichment" -> "textEnrichment"
      [] key = "location_enrichment" -> "locationEnrichment"
      [] key = "map_enrichment" -> "mapEnrichment"
      [] key = "relative_media_item_id" -> "relativeMediaItemId"
      [] key = "relative_enrichment_item_id" -> "relativeEnrichmentItemId"
      [] key = "media_item" -> "mediaItem"
      [] OTHER -> key

\* JSON_DATA_TYPES: type(value) is compared with these exactly, so a bool
\* (a subclass of int) is not one of them.
JSON_DATA_TYPES == {"str", "int", "float", "list", "tuple", "dict"}

\* Whether to_dict(obj) raises AttributeError: a value that is neither of a
\* JSON type nor an Enum is read through its __dict__, which a bool lacks.
RECURSIVE ToDictFails(_)
ToDictFails(obj) ==
    \E key \in DOMAIN obj.v :
        LET value == obj.v[key]
        IN  /\ ~IsNone(value)
            /\ value.t \notin JSON_DATA_TYPES
            /\ value.t # "enum"
            /\ (value.t # "object" \/ ToDictFails(value))

\* to_dict(obj), where it does not raise.
RECURSIVE to_dict(_)
to_dict(obj) ==
    LET kept == {key \in DOMAIN obj.v : ~IsNone(obj.v[key])}
    IN  PyDict([camel_case_key \in {snake_case_to_camel_case(key) : key \in kept} |->
            LET key == CHOOSE k \in kept : snake_case_to_camel_case(k) = camel_case_key
                value == obj.v[key]
            IN  IF value.t \in JSON_DATA_TYPES THEN value
                ELSE IF value.t = "enum" THEN PyStr(value.v)
                ELSE to_dict(value)])

\* Whether json.dumps(x) raises TypeError: an Enum member or an object,
\* at any depth, is not JSON serializable.
RECURSIVE JsonDumpsFails(_)
JsonDumpsFails(x) ==
    CASE x.t \in {"enum", "object"} -> TRUE
      [] x.t \in {"list", "tuple"} -> \E k \in 1..Len(x.v) : JsonDumpsFails(x.v[k])
      [] x.t = "dict" -> \E key \in DOMAIN x.v : JsonDumpsFails(x.v[key])
      [] OTHER -> FALSE

---------------------------------------------------------------------------
(* Paginated listing: the four generator functions *)

AlbumsList == "albums.list"
SharedAlbumsList == "sharedAlbums.list"
MediaItemsList == "mediaItems.list"
MediaItemsSearch == "mediaItems.search"
ListApis == {AlbumsList, SharedAlbumsList, MediaItemsList}
Apis == ListApis \cup {MediaItemsSearch}

\* The generators a client has handed out.
IterIds == {1, 2}

AlbumListMaxPageSize == 50
SharedAlbumListMaxPageSize == 50
MediaItemListMaxPageSize == 100
MediaItemSearchMaxPageSize == 100

MaxPageSize(api) ==
    CASE api = AlbumsList -> AlbumListMaxPageSize
      [] api = SharedAlbumsList -> SharedAlbumListMaxPageSize
      [] api = MediaItemsList -> MediaItemListMaxPageSize
      [] api = MediaItemsSearch -> MediaItemSearchMaxPageSize

\* A bound check that is off by one.
PageSizeAtLeastMax(api, page_size) == page_size >= MaxPageSize(api)

\* if page_size > <maximum>: raise GooglePhotosAPIError
PageSizeTooBig(api, page_size) == page_size > MaxPageSize(api)

\* A check that rejects either argument instead of their combination.
AlbumIdOrFilters(album_id, filters) == Truthy(album_id) \/ Truthy(filters)

\* if album_id and filters: raise GooglePhotosAPIError
AlbumIdWithFilters(album_id, filters) == Truthy(album_id) /\ Truthy(filters)

\* The key of the response that holds the page's items.
ItemsKey(api) == IF api \in {AlbumsList, SharedAlbumsList} THEN "albums" ELSE "mediaItems"

\* The constructor applied to each item of a page.
DecodeItem(api, item) ==
    IF api \in {AlbumsList, SharedAlbumsList} THEN AlbumInit(item.v) ELSE MediaItemInit(item.v)

\* [Album(album) for album in albums]: the first item that fails to decode
\* raises.
DecodePage(api, items) ==
    IF \A k \in 1..Len(items) : DecodeItem(api, items[k]).ok
    THEN Ok(PyList([k \in 1..Len(items) |-> DecodeItem(api, items[k]).val]))
    ELSE LET bad == CHOOSE k \in 1..Len(items) :
                        /\ ~DecodeItem(api, items[k]).ok
                        /\ \A j \in 1..(k - 1) : DecodeItem(api, items[j]).ok
         IN  Raise(DecodeItem(api, items[bad]).err)

\* A generator that yields whenever the items key is present.
ShouldYieldWhenPresent(items) == ~IsNone(items)

\* if albums: yield ...
ShouldYield(items) == Truthy(items)

\* A loop that also stops on a page without items.
NoMorePagesOrEmptyPage(items, next_page_token) == IsNone(next_page_token) \/ ~Truthy(items)

\* if next_page_token is None: break   (items is the local the page was read into)
NoMorePages(items, next_page_token) == IsNone(next_page_token)

\* next_page_token = response.get('nextPageToken')
NextPageTokenOf(response) == Get(response, "nextPageToken")

\* The frame of a generator that was never created.
NoFrame == [pc |-> "unused", api |-> "none", page_size |-> 0, page_token |-> PyNone,
            exclude_non_app_created_data |-> PyNone, album_id |-> PyNone,
            filters |-> PyNone, order_by |-> PyNone, body_dict |-> EmptyMap,
            next_page_token |-> PyNone, asked_after_end |-> FALSE]

\* What a completed next() gave the caller: a page with its token (and, for
\* the record, the index of the response it came from) or an exception.
PageResult(page, token, resp) ==
    [kind |-> "page", page |-> page, token |-> token, resp |-> resp, err |-> "none"]
RaiseResult(err) ==
    [kind |-> "raise", page |-> PyNone, token |-> PyNone, resp |-> 0, err |-> err]

\* A request that always carries the caller's starting token.
RequestParamsStartToken(g) ==
    CASE g.api \in {AlbumsList, SharedAlbumsList} ->
            [pageSize |-> PyInt(g.page_size), pageToken |-> g.page_token,
             excludeNonAppCreatedData |-> g.exclude_non_app_created_data]
      [] g.api = MediaItemsList ->
            [pageSize |-> PyInt(g.page_size), pageToken |-> g.page_token]
      [] g.api = MediaItemsSearch -> g.body_dict

\* A request whose token is the one a generator of the client received last,
\* as if the client kept the continuation token for its generators.
RequestParamsTokenOfClient(g) ==
    LET holders == {j \in IterIds : ~IsNone(gen[j].next_page_token)}
        token == IF holders = {} THEN g.next_page_token
                 ELSE gen[CHOOSE j \in holders : \A h \in holders : j >= h].next_page_token
    IN  CASE g.api \in {AlbumsList, SharedAlbumsList} ->
                [pageSize |-> PyInt(g.page_size), pageToken |-> token,
                 excludeNonAppCreatedData |-> g.exclude_non_app_created_data]
          [] g.api = MediaItemsList -> [pageSize |-> PyInt(g.page_size), pageToken |-> token]
          [] g.api = MediaItemsSearch -> g.body_dict

\* The arguments of the request a frame sends: keyword arguments for the
\* list methods, the JSON body for search.
RequestParams(g) ==
    CASE g.api \in {AlbumsList, SharedAlbumsList} ->
            [pageSize |-> PyInt(g.page_size), pageToken |-> g.next_page_token,
             excludeNonAppCreatedData |-> g.exclude_non_app_created_data]
      [] g.api = MediaItemsList ->
            [pageSize |-> PyInt(g.page_size), pageToken |-> g.next_page_token]
      [] g.api = MediaItemsSearch -> g.body_dict

\* body_dict.update({'pageToken': next_page_token})
UpdatePageToken(body_dict, next_page_token) ==
    [k \in DOMAIN body_dict \cup {"pageToken"} |->
        IF k = "pageToken" THEN next_page_token ELSE body_dict[k]]

\* The body search builds before its loop.
SearchBody(g) ==
    LET keys == {"pageSize"}
                \cup (IF Truthy(g.album_id) THEN {"albumId"} ELSE {})
                \cup (IF Truthy(g.page_token) THEN {"pageToken"} ELSE {})
                \cup (IF Truthy(g.filters) THEN {"filters"} ELSE {})
                \cup (IF Truthy(g.order_by) THEN {"orderBy"} ELSE {})
    IN  [k \in keys |->
            CASE k = "pageSize" -> PyInt(g.page_size)
              [] k = "albumId" -> g.album_id
              [] k = "pageToken" -> g.page_token
              [] k = "filters" -> to_dict(g.filters)
              [] k = "orderBy" -> g.order_by]

---------------------------------------------------------------------------
(* Inputs of the paging specification *)

Tok1 == PyStr(<<"t", "1">>)
Tok2 == PyStr(<<"t", "2">>)
\* Continuation tokens the server hands out.
ServerTokens == {Tok1, Tok2}
\* Starting tokens a caller supplies.
CallerTokens == {PyNone, Tok1}
\* Page sizes a caller asks for: each resource's maximum and one more.
PageSizes == {AlbumListMaxPageSize, AlbumListMaxPageSize + 1,
              MediaItemListMaxPageSize, MediaItemListMaxPageSize + 1}
\* Album ids a caller passes to search.
AlbumIds == {PyNone, PyStr(<<>>), PyStr(<<"a">>)}
OrderBys == {PyNone, PyStr(<<"o">>)}

\* Filters objects as Filters.__init__ leaves them.
FiltersObj(media_type_filter, include_archived_media) ==
    PyObj("Filters", [date_filter |-> PyNone, content_filter |-> PyNone,
                      media_type_filter |-> media_type_filter, feature_filter |-> PyNone,
                      include_archived_media |-> include_archived_media,
                      exclude_non_app_created_data |-> PyNone])
FiltersEmpty == FiltersObj(PyNone, PyNone)
FiltersArchived == FiltersObj(PyNone, PyBool(TRUE))
FiltersMediaType ==
    FiltersObj(PyObj("MediaTypeFilter",
                     [media_types |-> PyList(<<PyEnum("MediaType", <<"PHOTO">>)>>)]),
               PyNone)
FiltersInputs == {PyNone, FiltersEmpty, FiltersArchived, FiltersMediaType}

S1(c) == PyStr(<<c>>)

\* Albums as the wire carries them; the last lacks its cover photo fields.
WireAlbum(id) ==
    PyDict([id |-> S1(id), title |-> PyStr(Chars(3)), productUrl |-> S1("p"),
            isWritable |-> PyBool(TRUE), mediaItemsCount |-> S1("7"),
            coverPhotoBaseUrl |-> S1("c"), coverPhotoMediaItemId |-> S1("m")])
WireAlbumNoCover ==
    PyDict([id |-> S1("z"), title |-> PyStr(Chars(3)), productUrl |-> S1("p"),
            isWritable |-> PyBool(TRUE), mediaItemsCount |-> S1("0")])

\* Media items as the wire carries them; the last is not in a shared album
\* and carries no contributorInfo.
WireMetadata ==
    PyDict([creationTime |-> S1("c"), width |-> S1("4"), height |-> S1("3"),
            photo |-> PyDict([cameraMake |-> S1("k")])])
WireMediaItem(id) ==
    PyDict([id |-> S1(id), description |-> S1("d"), productUrl |-> S1("p"),
            baseUrl |-> S1("b"), mimeType |-> S1("j"), mediaMetadata |-> WireMetadata,
            contributorInfo |-> PyDict([profilePictureBaseUrl |-> S1("u"),
                                        displayName |-> S1("n")]),
            filename |-> S1("f")])
WireMediaItemNoContributor ==
    PyDict([id |-> S1("z"), description |-> S1("d"), productUrl |-> S1("p"),
            baseUrl |-> S1("b"), mimeType |-> S1("j"), mediaMetadata |-> WireMetadata,
            filename |-> S1("f")])

\* The item lists a response may carry.
ItemLists(api) ==
    IF api \in {AlbumsList, SharedAlbumsList}
    THEN {<<>>, <<WireAlbum("a")>>, <<WireAlbum("a"), WireAlbum("b")>>, <<WireAlbumNoCover>>}
    ELSE {<<>>, <<WireMediaItem("a")>>, <<WireMediaItem("a"), WireMediaItem("b")>>,
          <<WireMediaItemNoContributor>>}

\* The responses the transport may return: the items key and the
\* nextPageToken key are each present or not.
Responses(api) ==
    {[k \in {ItemsKey(api)} |-> PyList(items)] : items \in ItemLists(api)}
    \cup {[k \in {ItemsKey(api), "nextPageToken"} |->
              IF k = "nextPageToken" THEN tok ELSE PyList(items)] :
          items \in ItemLists(api), tok \in ServerTokens}
    \cup {EmptyMap}
    \cup {[k \in {"nextPageToken"} |-> tok] : tok \in ServerTokens}

HttpError == [t |-> "HttpError"]

---------------------------------------------------------------------------
(* Paging: the state machine *)

\* The top of `while True:`: build the request and start execute(). For
\* search the body gets the page token and is encoded, which may raise.
LoopTop(i, g) ==
    LET g2 == IF g.api = MediaItemsSearch
              THEN [g EXCEPT !.body_dict = UpdatePageToken(g.body_dict, g.next_page_token)]
              ELSE g
    IN  IF g.api = MediaItemsSearch /\ JsonDumpsFails(PyDict(g2.body_dict))
        THEN /\ gen' = [gen EXCEPT ![i] = [g2 EXCEPT !.pc = "raised"]]
             /\ results' = [results EXCEPT ![i] = Append(@, RaiseResult("TypeError"))]
             /\ reqs' = reqs
        ELSE /\ gen' = [gen EXCEPT ![i] = [g2 EXCEPT !.pc = "fetching"]]
             /\ reqs' = [reqs EXCEPT ![i] =
                            Append(@, [api |-> g2.api, params |-> RequestParams(g2)])]
             /\ results' = results

\* The generator ends with an exception, or returns (StopIteration).
Finish(i, g, pc, err) ==
    /\ gen' = [gen EXCEPT ![i] = [g EXCEPT !.pc = pc]]
    /\ results' = [results EXCEPT ![i] = Append(@, RaiseResult(err))]
    /\ reqs' = reqs

\* A list that is not a generator: the call itself starts the first fetch.
CallListEager(i, api, page_size, page_token, exclude) ==
    LET g == [NoFrame EXCEPT
                  !.pc = "fetching", !.api = api, !.page_size = page_size,
                  !.page_token = page_token, !.next_page_token = page_token,
                  !.exclude_non_app_created_data =
                      IF api = MediaItemsList THEN PyNone ELSE PyBool(exclude)]
    IN  /\ gen[i].pc = "unused"
        /\ gen' = [gen EXCEPT ![i] = g]
        /\ reqs' = [reqs EXCEPT ![i] = Append(@, [api |-> api, params |-> RequestParams(g)])]
        /\ UNCHANGED <<resps, results, asks, call>>

\* list(page_size, page_token, exclude_non_app_created_data): calling a
\* generator function runs none of its body.
CallList(i, api, page_size, page_token, exclude) ==
    /\ gen[i].pc = "unused"
    /\ gen' = [gen EXCEPT ![i] = [NoFrame EXCEPT
                  !.pc = "created", !.api = api, !.page_size = page_size,
                  !.page_token = page_token,
                  !.exclude_non_app_created_data =
                      IF api = MediaItemsList THEN PyNone ELSE PyBool(exclude)]]
    /\ UNCHANGED <<reqs, resps, results, asks, call>>

\* search(album_id, page_size, page_token, filters, order_by)
CallSearch(i, album_id, page_size, page_token, filters, order_by) ==
    /\ gen[i].pc = "unused"
    /\ gen' = [gen EXCEPT ![i] = [NoFrame EXCEPT
                  !.pc = "created", !.api = MediaItemsSearch, !.page_size = page_size,
                  !.page_token = page_token, !.album_id = album_id,
                  !.filters = filters, !.order_by = order_by]]
    /\ UNCHANGED <<reqs, resps, results, asks, call>>

\* The first next(): the body runs from its start to the first execute().
NextFirst(i) ==
    LET g == gen[i]
        start == [g EXCEPT !.next_page_token = g.page_token]
    IN  /\ g.pc = "created"
        /\ asks' = [asks EXCEPT ![i] = @ + 1]
        /\ UNCHANGED <<resps, call>>
        /\ IF g.api = MediaItemsSearch /\ AlbumIdWithFilters(g.album_id, g.filters)
           THEN Finish(i, g, "raised", "GooglePhotosAPIError")
           ELSE IF PageSizeTooBig(g.api, g.page_size)
           THEN Finish(i, g, "raised", "GooglePhotosAPIError")
           ELSE IF g.api # MediaItemsSearch THEN LoopTop(i, start)
           ELSE IF Truthy(g.filters) /\ ToDictFails(g.filters)
           THEN Finish(i, g, "raised", "AttributeError")
           ELSE LoopTop(i, [start EXCEPT !.body_dict = SearchBody(g)])

\* A later next(): the body resumes after its yield.
NextResume(i) ==
    LET g == gen[i]
    IN  /\ g.pc = "suspended"
        /\ asks' = [asks EXCEPT ![i] = @ + 1]
        /\ UNCHANGED <<resps, call>>
        /\ IF NoMorePages(Get(resps[i][Len(resps[i])].v, ItemsKey(g.api)), g.next_page_token)
           THEN Finish(i, g, "done", "StopIteration")
           ELSE LoopTop(i, g)

\* next() on a generator that has returned or raised: StopIteration. The
\* caller tries this once.
NextFinished(i) ==
    LET g == gen[i]
    IN  /\ g.pc \in {"done", "raised"}
        /\ ~g.asked_after_end
        /\ asks' = [asks EXCEPT ![i] = @ + 1]
        /\ UNCHANGED <<resps, call>>
        /\ Finish(i, [g EXCEPT !.asked_after_end = TRUE], g.pc, "StopIteration")

\* execute() returns response: the body runs on to its next yield, its
\* return, an exception or the next execute().
RecvResponse(i, response) ==
    LET g == [gen[i] EXCEPT !.next_page_token = NextPageTokenOf(response)]
        items == Get(response, ItemsKey(g.api))
        n == Len(resps[i]) + 1
    IN  /\ gen[i].pc = "fetching"
        /\ n >= MaxPages => "nextPageToken" \notin DOMAIN response
        /\ resps' = [resps EXCEPT ![i] = Append(@, PyDict(response))]
        /\ UNCHANGED <<asks, call>>
        /\ IF ShouldYield(items)
           THEN IF DecodePage(g.api, items.v).ok
                THEN /\ gen' = [gen EXCEPT ![i] = [g EXCEPT !.pc = "suspended"]]
                     /\ results' = [results EXCEPT ![i] =
                            Append(@, PageResult(DecodePage(g.api, items.v).val,
                                                 g.next_page_token, n))]
                     /\ reqs' = reqs
                ELSE Finish(i, g, "raised", DecodePage(g.api, items.v).err)
           ELSE IF NoMorePages(items, g.next_page_token)
                THEN Finish(i, g, "done", "StopIteration")
                ELSE LoopTop(i, g)

\* A client that answers a transport error by sending the request again.
RecvErrorRetries(i) ==
    /\ gen[i].pc = "fetching"
    /\ Len(reqs[i]) < MaxPages
    /\ resps' = [resps EXCEPT ![i] = Append(@, HttpError)]
    /\ reqs' = [reqs EXCEPT ![i] = Append(@, reqs[i][Len(reqs[i])])]
    /\ UNCHANGED <<gen, results, asks, call>>

\* execute() raises the transport's error, which leaves the generator.
RecvError(i) ==
    /\ gen[i].pc = "fetching"
    /\ resps' = [resps EXCEPT ![i] = Append(@, HttpError)]
    /\ UNCHANGED <<asks, call>>
    /\ Finish(i, gen[i], "raised", "HttpError")

NoCall == [op |-> "none", media_item_ids |-> <<>>, net |-> <<>>, outcome |-> "none"]

Init ==
    /\ gen = [i \in IterIds |-> NoFrame]
    /\ reqs = [i \in IterIds |-> <<>>]
    /\ resps = [i \in IterIds |-> <<>>]
    /\ results = [i \in IterIds |-> <<>>]
    /\ asks = [i \in IterIds |-> 0]
    /\ call = NoCall

\* One caller iterating one generator.
Single == {1}

Next ==
    \/ \E i \in Single, api \in ListApis, page_size \in PageSizes,
          page_token \in CallerTokens, exclude \in BOOLEAN :
            CallList(i, api, page_size, page_token, exclude)
    \/ \E i \in Single, album_id \in AlbumIds, page_size \in PageSizes,
          page_token \in CallerTokens, filters \in FiltersInputs, order_by \in OrderBys :
            CallSearch(i, album_id, page_size, page_token, filters, order_by)
    \/ \E i \in Single : NextFirst(i)
    \/ \E i \in Single : NextResume(i)
    \/ \E i \in Single : NextFinished(i)
    \/ \E i \in Single : \E response \in Responses(gen[i].api) : RecvResponse(i, response)
    \/ \E i \in Single : RecvError(i)

Spec == Init /\ [][Next]_vars

---------------------------------------------------------------------------
(* Paging: two generators of one client, advanced in any interleaved order *)

\* The pages a server sends each of the two generators.
MaxPagesEach == 2

\* What the server answers the generators of the media item client: a page
\* with one of two continuation tokens, or the last page.
ResponsesOfTwo ==
    {[k \in {"mediaItems"} |-> PyList(<<WireMediaItem("a")>>)]}
    \cup {[k \in {"mediaItems", "nextPageToken"} |->
              IF k = "nextPageToken" THEN tok ELSE PyList(<<WireMediaItem("a")>>)] :
          tok \in ServerTokens}

\* Two callers of the media item client, each iterating its own list or
\* search.
NextTwo ==
    \/ \E i \in IterIds, page_size \in {AlbumListMaxPageSize, MediaItemListMaxPageSize},
          page_token \in CallerTokens :
            CallList(i, MediaItemsList, page_size, page_token, FALSE)
    \/ \E i \in IterIds, page_size \in {AlbumListMaxPageSize, MediaItemListMaxPageSize},
          page_token \in CallerTokens :
            CallSearch(i, PyStr(<<"a">>), page_size, page_token, PyNone, PyNone)
    \/ \E i \in IterIds : NextFirst(i)
    \/ \E i \in IterIds : NextResume(i)
    \/ \E i \in IterIds : NextFinished(i)
    \/ \E i \in IterIds : \E response \in ResponsesOfTwo :
            /\ Len(resps[i]) + 1 >= MaxPagesEach => "nextPageToken" \notin DOMAIN response
            /\ RecvResponse(i, response)
    \/ \E i \in IterIds : RecvError(i)

SpecTwo == Init /\ [][NextTwo]_vars

---------------------------------------------------------------------------
(* Batch add and remove of media items *)

\* "The maximum number of media items that can be added in one call is 50."
MaxBatchAdd == 50
\* "The maximum number of media items that can be removed in one call is 50."
MaxBatchRemove == 50

\* The id lists a caller passes: k distinct ids, the same in reverse order,
\* and the same with the first id repeated at the end.
MediaItemId(k) == PyStr(Digits(k))
DistinctIds(n) == [k \in 1..n |-> MediaItemId(k)]
ReversedIds(n) == [k \in 1..n |-> MediaItemId(n + 1 - k)]
RepeatedIds(n) == [k \in 1..n |-> MediaItemId(IF k = n THEN 1 ELSE k)]
IdLists ==
    {DistinctIds(n) : n \in 0..MaxIds}
    \cup {ReversedIds(n) : n \in 2..MaxIds}
    \cup {RepeatedIds(n) : n \in 2..MaxIds}

\* What execute() does with a request: it returns or raises.
TransportOutcomes == {"returned", "HttpError"}

\* batch_add_media_items:  if len(media_item_ids) != 0: raise
BatchAddFirstCheck(media_item_ids) == Len(media_item_ids) # 0
\* batch_add_media_items:  elif len(media_item_ids) > 50: raise
BatchAddSecondCheck(media_item_ids) == Len(media_item_ids) > MaxBatchAdd

\* batch_remove_media_items:  if len(media_item_ids) != 0: raise
BatchRemoveFirstCheck(media_item_ids) == Len(media_item_ids) # 0
\* batch_remove_media_items:  if len(media_item_ids) > 50: raise
BatchRemoveSecondCheck(media_item_ids) == Len(media_item_ids) > MaxBatchRemove
\* batch_remove_media_items:  if len(set(media_item_ids)) != len(media_item_ids): raise
BatchRemoveThirdCheck(media_item_ids) ==
    Cardinality({media_item_ids[k] : k \in 1..Len(media_item_ids)}) # Len(media_item_ids)

\* request.body = json.dumps({'mediaItemIds': media_item_ids})
BatchBody(media_item_ids) == [mediaItemIds |-> PyList(media_item_ids)]

\* batch_add_media_items(album_id, media_item_ids)
BatchAddMediaItems(album_id, media_item_ids, outcome) ==
    IF BatchAddFirstCheck(media_item_ids) \/ BatchAddSecondCheck(media_item_ids)
    THEN /\ call' = [op |-> "batch_add_media_items", media_item_ids |-> media_item_ids,
                     net |-> <<>>, outcome |-> "GooglePhotosAPIError"]
         /\ UNCHANGED <<gen, reqs, resps, results, asks>>
    ELSE /\ call' = [op |-> "batch_add_media_items", media_item_ids |-> media_item_ids,
                     net |-> <<[api |-> "albums.batchAddMediaItems", album_id |-> album_id,
                                body |-> BatchBody(media_item_ids)]>>,
                     outcome |-> outcome]
         /\ UNCHANGED <<gen, reqs, resps, results, asks>>

\* batch_remove_media_items(album_id, media_item_ids)
BatchRemoveMediaItems(album_id, media_item_ids, outcome) ==
    IF \/ BatchRemoveFirstCheck(media_item_ids)
       \/ BatchRemoveSecondCheck(media_item_ids)
       \/ BatchRemoveThirdCheck(media_item_ids)
    THEN /\ call' = [op |-> "batch_remove_media_items", media_item_ids |-> media_item_ids,
                     net |-> <<>>, outcome |-> "GooglePhotosAPIError"]
         /\ UNCHANGED <<gen, reqs, resps, results, asks>>
    ELSE /\ call' = [op |-> "batch_remove_media_items", media_item_ids |-> media_item_ids,
                     net |-> <<[api |-> "albums.batchRemoveMediaItems", album_id |-> album_id,
                                body |-> BatchBody(media_item_ids)]>>,
                     outcome |-> outcome]
         /\ UNCHANGED <<gen, reqs, resps, results, asks>>

NextBatch ==
    \/ \E media_item_ids \in IdLists, outcome \in TransportOutcomes :
          BatchAddMediaItems(S1("a"), media_item_ids, outcome)
    \/ \E media_item_ids \in IdLists, outcome \in TransportOutcomes :
          BatchRemoveMediaItems(S1("a"), media_item_ids, outcome)

SpecBatch == Init /\ [][NextBatch]_vars

---------------------------------------------------------------------------
(* Patch and create: the single-request calls of the two clients *)

\* str.split(sep): the pieces of cs between the occurrences of sep.
RECURSIVE split(_, _)
split(cs, sep) ==
    IF \A k \in 1..Len(cs) : cs[k] # sep THEN <<cs>>
    ELSE LET k == CHOOSE j \in 1..Len(cs) :
                     cs[j] = sep /\ \A h \in 1..(j - 1) : cs[h] # sep
         IN  <<SubSeq(cs, 1, k - 1)>> \o split(SubSeq(cs, k + 1, Len(cs)), sep)

Whitespace == {" ", "\t", "\n"}

\* str.strip(): cs without its leading and trailing whitespace.
RECURSIVE strip(_)
strip(cs) ==
    IF cs = <<>> THEN cs
    ELSE IF cs[1] \in Whitespace THEN strip(Tail(cs))
    ELSE IF cs[Len(cs)] \in Whitespace THEN strip(SubSeq(cs, 1, Len(cs) - 1))
    ELSE cs

Title == <<"t", "i", "t", "l", "e">>
CoverPhotoMediaItemId ==
    <<"c", "o", "v", "e", "r", "P", "h", "o", "t", "o",
      "M", "e", "d", "i", "a", "I", "t", "e", "m", "I", "d">>
Description == <<"d", "e", "s", "c", "r", "i", "p", "t", "i", "o", "n">>
Foo == <<"f", "o", "o">>

\* if field not in ('title', 'coverPhotoMediaItemId')
AlbumPatchFields == {Title, CoverPhotoMediaItemId}

\* fields_to_update = [field.strip() for field in update_mask.split(',')]
fields_to_update(update_mask) ==
    LET fields == split(update_mask, ",")
    IN  [k \in 1..Len(fields) |-> strip(fields[k])]

\* albums.patch: the loop that raises on the first field that is not allowed.
AlbumMaskRejected(update_mask) ==
    \E k \in 1..Len(fields_to_update(update_mask)) :
        fields_to_update(update_mask)[k] \notin AlbumPatchFields

\* A check of the mask's prefix instead of the whole mask.
MediaItemMaskNotPrefixed(update_mask) ==
    ~(Len(update_mask) >= Len(Description)
        /\ SubSeq(update_mask, 1, Len(Description)) = Description)

\* media_items.patch:  if update_mask != 'description': raise
MediaItemMaskRejected(update_mask) == update_mask # Description

\* The update masks a caller passes.
UpdateMasks ==
    {Title, CoverPhotoMediaItemId, Description, Foo, <<>>,
     Title \o <<",">> \o CoverPhotoMediaItemId,
     Title \o <<",", " ">> \o CoverPhotoMediaItemId,
     <<" ">> \o Title \o <<" ">>,
     Title \o <<",">> \o Foo,
     Title \o <<",">>,
     Title \o <<",">> \o Title,
     <<"T">> \o Tail(Title),
     Description \o <<" ">>,
     Description \o <<",">> \o Description,
     <<"D">> \o Tail(Description)}

\* The ids of the albums and media items a caller holds.
ItemIds == {"a", "b", "c", "d"}

\* The albums a caller holds: each was built by Album.__init__.
AlbumInputs == {AlbumInit(WireAlbum(id).v).val : id \in ItemIds}

\* The media items a caller holds: each was built by MediaItem.__init__.
WireVideoMetadata ==
    PyDict([creationTime |-> S1("c"), width |-> S1("4"), height |-> S1("3"),
            video |-> PyDict([fps |-> PyInt(30), status |-> PyStr(<<"READY">>)])])
WireVideoItem ==
    PyDict([id |-> S1("v"), description |-> S1("d"), productUrl |-> S1("p"),
            baseUrl |-> S1("b"), mimeType |-> S1("j"), mediaMetadata |-> WireVideoMetadata,
            contributorInfo |-> PyNone, filename |-> S1("f")])
MediaItemInputs ==
    {MediaItemInit(WireMediaItem(id).v).val : id \in ItemIds}
    \cup {MediaItemInit(WireVideoItem.v).val}

\* What execute() hands back to patch and create: a mapping, or it raises.
AlbumResponses == {WireAlbum("a"), WireAlbumNoCover, HttpError}
MediaItemResponses == {WireMediaItem("a"), WireMediaItemNoContributor, HttpError}

\* The call record of an operation that built no request.
NoRequest(op, arg, update_mask, outcome) ==
    [op |-> op, arg |-> arg, update_mask |-> update_mask, net |-> <<>>,
     outcome |-> outcome, val |-> PyNone]

\* request.body = json.dumps(...); response = request.execute();
\* return <Record>(response)
ExecuteAndDecode(op, arg, update_mask, request, response, decoded) ==
    [op |-> op, arg |-> arg, update_mask |-> update_mask, net |-> <<request>>,
     outcome |-> IF response = HttpError THEN "HttpError"
                 ELSE IF decoded.ok THEN "returned" ELSE decoded.err,
     val |-> IF response # HttpError /\ decoded.ok THEN decoded.val ELSE PyNone]

\* What Album(response) and MediaItem(response) make of what execute() gave.
DecodeAlbum(response) ==
    IF response = HttpError THEN Raise("HttpError") ELSE AlbumInit(response.v)
DecodeMediaItem(response) ==
    IF response = HttpError THEN Raise("HttpError") ELSE MediaItemInit(response.v)

\* GooglePhotosAlbumAPIClient.patch(album, update_mask)
AlbumPatch(album, update_mask, response) ==
    /\ call' =
        IF AlbumMaskRejected(update_mask)
        THEN NoRequest("albums.patch", album, update_mask, "GooglePhotosAPIError")
        ELSE IF ToDictFails(album)
        THEN NoRequest("albums.patch", album, update_mask, "AttributeError")
        ELSE IF JsonDumpsFails(to_dict(album))
        THEN NoRequest("albums.patch", album, update_mask, "TypeError")
        ELSE ExecuteAndDecode("albums.patch", album, update_mask,
                 [api |-> "albums.patch", id |-> album.v.id,
                  updateMask |-> PyStr(update_mask), body |-> to_dict(album)],
                 response, DecodeAlbum(response))
    /\ UNCHANGED <<gen, reqs, resps, results, asks>>

\* GooglePhotosAlbumAPIClient.create(album)
AlbumCreate(album, response) ==
    /\ call' =
        IF ToDictFails(album)
        THEN NoRequest("albums.create", album, <<>>, "AttributeError")
        ELSE IF JsonDumpsFails(to_dict(album))
        THEN NoRequest("albums.create", album, <<>>, "TypeError")
        ELSE ExecuteAndDecode("albums.create", album, <<>>,
                 [api |-> "albums.create", body |-> PyDict([album |-> to_dict(album)])],
                 response, DecodeAlbum(response))
    /\ UNCHANGED <<gen, reqs, resps, results, asks>>

\* GooglePhotosMediaItemAPIClient.patch(media_item, update_mask)
MediaItemPatch(media_item, update_mask, response) ==
    /\ call' =
        IF MediaItemMaskRejected(update_mask)
        THEN NoRequest("mediaItems.patch", media_item, update_mask, "GooglePhotosAPIError")
        ELSE IF ToDictFails(media_item)
        THEN NoRequest("mediaItems.patch", media_item, update_mask, "AttributeError")
        ELSE IF JsonDumpsFails(to_dict(media_item))
        THEN NoRequest("mediaItems.patch", media_item, update_mask, "TypeError")
        ELSE ExecuteAndDecode("mediaItems.patch", media_item, update_mask,
                 [api |-> "mediaItems.patch", id |-> media_item.v.id,
                  body |-> to_dict(media_item)],
                 response, DecodeMediaItem(response))
    /\ UNCHANGED <<gen, reqs, resps, results, asks>>

NextPatch ==
    \/ \E album \in AlbumInputs, update_mask \in UpdateMasks, response \in AlbumResponses :
          AlbumPatch(album, update_mask, response)
    \/ \E album \in AlbumInputs, response \in AlbumResponses :
          AlbumCreate(album, response)
    \/ \E media_item \in MediaItemInputs, update_mask \in UpdateMasks,
          response \in MediaItemResponses :
          MediaItemPatch(media_item, update_mask, response)

SpecPatch == Init /\ [][NextPatch]_vars

---------------------------------------------------------------------------
(* Building a typed record from a mapping, and serializing it *)

\* The record classes a caller builds.
RecordClasses ==
    {"Album", "NewMediaItem", "LatLng", "Location", "LocationEnrichment",
     "MapEnrichment", "MediaMetadata", "MediaItem", "Filters",
     "NewEnrichmentItem", "AlbumPosition", "DateFilter"}

\* Cls(mapping)
New(cls, mapping) ==
    CASE cls = "Album" -> AlbumInit(mapping)
      [] cls = "NewMediaItem" -> NewMediaItemInit(mapping)
      [] cls = "LatLng" -> LatLngInit(mapping)
      [] cls = "Location" -> LocationInit(mapping)
      [] cls = "LocationEnrichment" -> LocationEnrichmentInit(mapping)
      [] cls = "MapEnrichment" -> MapEnrichmentInit(mapping)
      [] cls = "MediaMetadata" -> MediaMetadataInit(mapping)
      [] cls = "MediaItem" -> MediaItemInit(mapping)
      [] cls = "Filters" -> FiltersInit(mapping)
      [] cls = "NewEnrichmentItem" -> NewEnrichmentItemInit(mapping)
      [] cls = "AlbumPosition" -> AlbumPositionInit(mapping)
      [] cls = "DateFilter" -> DateFilterInit(mapping)

\* Albums with a title of n characters.
AlbumTitled(n) ==
    PyDict([id |-> S1("a"), title |-> PyStr(Chars(n)), productUrl |-> S1("p"),
            isWritable |-> PyBool(TRUE), mediaItemsCount |-> PyInt(7),
            coverPhotoBaseUrl |-> S1("c"), coverPhotoMediaItemId |-> S1("m")])
TitleLens == {0, 1, MaxTitleLen - 1, MaxTitleLen, MaxTitleLen + 1, MaxTitleLen + 2}

\* New media items with a description of n characters; the upload token is
\* under the key SimpleMediaItem reads, or under the key of the wire.
SimpleItems ==
    {PyDict([upload_token |-> S1("u")]),
     PyDict([upload_token |-> S1("u"), fileName |-> S1("f")]),
     PyDict([uploadToken |-> S1("u")])}
NewItemDescribed(n, simple_media_item) ==
    PyDict([description |-> PyStr(Chars(n)), simpleMediaItem |-> simple_media_item])
DescriptionLens ==
    {0, 1, MaxDescriptionLen - 1, MaxDescriptionLen, MaxDescriptionLen + 1}

\* Coordinates at, inside and outside the ends of their ranges.
Latitudes == {MinLatitude - 1, MinLatitude, 0, MaxLatitude, MaxLatitude + 1}
Longitudes == {MinLongitude - 1, MinLongitude, 0, MaxLongitude, MaxLongitude + 1}
WireLatLng(latitude, longitude) ==
    PyDict([latitude |-> PyInt(latitude), longitude |-> PyInt(longitude)])
WireLocation(latlng) == PyDict([locationName |-> S1("l"), latlng |-> latlng])
LatLngInputs == {WireLatLng(lat, lng) : lat \in Latitudes, lng \in Longitudes}
LocationInputs ==
    {WireLocation(WireLatLng(lat, lng)) :
        lat \in {MinLatitude, MaxLatitude + 1}, lng \in {MinLongitude - 1, MaxLongitude}}

\* Metadata whose photo and video are each missing, empty or filled in.
MetadataInputs ==
    LET base == [creationTime |-> S1("c"), width |-> S1("4"), height |-> S1("3")]
        photos == {PyDict(EmptyMap), PyDict([cameraMake |-> S1("k")])}
        videos == {PyDict(EmptyMap), PyDict([fps |-> PyInt(30), status |-> PyStr(<<"READY">>)])}
        With(m, key, value) ==
            [k \in DOMAIN m \cup {key} |-> IF k = key THEN value ELSE m[k]]
    IN  {PyDict(base)}
        \cup {PyDict(With(base, "photo", p)) : p \in photos}
        \cup {PyDict(With(base, "video", v)) : v \in videos}
        \cup {PyDict(With(With(base, "photo", p), "video", v)) : p \in photos, v \in videos}

\* Filters as a caller writes them.
WireDate(year) == PyDict([year |-> PyInt(year), month |-> PyInt(1), day |-> PyInt(2)])
WireDateFilter ==
    PyDict([dates |-> PyList(<<WireDate(2020)>>),
            ranges |-> PyList(<<PyDict([startDate |-> WireDate(2019),
                                        endDate |-> WireDate(2021)])>>)])
FiltersWire ==
    {PyDict(EmptyMap),
     PyDict([includeArchivedMedia |-> PyBool(TRUE)]),
     PyDict([includeArchivedMedia |-> PyBool(FALSE)]),
     PyDict([mediaTypeFilter |-> PyDict([mediaTypes |-> PyList(<<PyStr(<<"PHOTO">>)>>)])]),
     PyDict([mediaTypeFilter |-> PyDict([mediaTypes |-> PyList(<<PyStr(<<"PHOTO">>),
                                                                 PyStr(<<"VIDEO">>)>>)])]),
     PyDict([featureFilter |->
                PyDict([includedFeatures |-> PyList(<<PyStr(<<"FAVORITES">>)>>)])]),
     PyDict([contentFilter |->
                PyDict([includedContentCategories |-> PyList(<<PyStr(<<"PETS">>)>>),
                        excludedContentCategories |-> PyList(<<PyStr(<<"FOOD">>)>>)])]),
     PyDict([contentFilter |->
                PyDict([includedContentCategories |-> PyList(<<PyStr(<<"PETS">>)>>)])]),
     PyDict([dateFilter |-> WireDateFilter]),
     PyDict([dateFilter |-> PyDict([dates |-> PyList(<<WireDate(2020)>>)])]),
     PyDict([dateFilter |-> PyDict([dates |-> PyList(<<WireDate(10000)>>),
                                    ranges |-> PyList(<<>>)])])}

\* Enrichment items with each enrichment missing, None, empty or filled in.
NewEnrichmentItemInputs ==
    LET location == WireLocation(WireLatLng(MinLatitude, MaxLongitude))
    IN  {PyDict(EmptyMap),
         PyDict([textEnrichment |-> PyNone]),
         PyDict([textEnrichment |-> PyDict(EmptyMap)]),
         PyDict([textEnrichment |-> PyDict([text |-> S1("t")])]),
         PyDict([locationEnrichment |-> PyDict(EmptyMap)]),
         PyDict([locationEnrichment |-> PyDict([location |-> location])]),
         PyDict([mapEnrichment |-> PyDict(EmptyMap), textEnrichment |-> PyNone]),
         PyDict([mapEnrichment |-> PyDict([origin |-> location, destination |-> location])]),
         PyDict([textEnrichment |-> PyDict([text |-> S1("t")]),
                 locationEnrichment |-> PyDict([location |-> location])])}

\* Album positions of each type, with the relative ids a caller may give.
AlbumPositionWire ==
    {PyDict(EmptyMap),
     PyDict([position |-> PyStr(<<"FIRST_IN_ALBUM">>)]),
     PyDict([position |-> PyStr(<<"ELSEWHERE">>)]),
     PyDict([position |-> PyStr(<<"AFTER_MEDIA_ITEM">>), relativeMediaItemId |-> S1("m")]),
     PyDict([position |-> PyStr(<<"AFTER_ENRICHMENT_ITEM">>),
             relativeEnrichmentItemId |-> S1("e")]),
     PyDict([position |-> PyStr(<<"AFTER_ENRICHMENT_ITEM">>),
             relativeEnrichmentItemId |-> S1("e"), relativeMediaItemId |-> S1("m")]),
     PyDict([position |-> PyStr(<<"AFTER_MEDIA_ITEM">>),
             relativeMediaItemId |-> PyStr(<<>>), relativeEnrichmentItemId |-> PyStr(<<>>)])}

\* Date filters with n dates and m ranges; 0 stands for a key that is not
\* given.
WireDateRange == PyDict([startDate |-> WireDate(2019), endDate |-> WireDate(2021)])
DateFilterOf(n, m) ==
    PyDict([key \in (IF n > 0 THEN {"dates"} ELSE {}) \cup (IF m > 0 THEN {"ranges"} ELSE {}) |->
              IF key = "dates" THEN PyList([k \in 1..n |-> WireDate(2020)])
              ELSE PyList([k \in 1..m |-> WireDateRange])])
DateFilterInputs ==
    {DateFilterOf(n, m) : n \in {0, 1, MaxDates, MaxDates + 1},
                          m \in {0, 1, MaxRanges, MaxRanges + 1}}
    \cup {PyDict([dates |-> PyList(<<WireDate(2020)>>), ranges |-> PyList(<<>>)])}

\* The mappings a caller passes to each class.
RecordInputs(cls) ==
    CASE cls = "Album" -> {AlbumTitled(n) : n \in TitleLens} \cup {WireAlbumNoCover}
      [] cls = "NewMediaItem" ->
            {NewItemDescribed(n, simple) : n \in DescriptionLens, simple \in SimpleItems}
      [] cls = "LatLng" -> LatLngInputs
      [] cls = "Location" -> LocationInputs
      [] cls = "LocationEnrichment" -> {PyDict([location |-> l]) : l \in LocationInputs}
      [] cls = "MapEnrichment" ->
            {PyDict([origin |-> o, destination |-> d]) : o, d \in LocationInputs}
      [] cls = "MediaMetadata" -> MetadataInputs
      [] cls = "MediaItem" ->
            {WireMediaItem("a"), WireVideoItem, WireMediaItemNoContributor}
      [] cls = "Filters" -> FiltersWire
      [] cls = "NewEnrichmentItem" -> NewEnrichmentItemInputs
      [] cls = "AlbumPosition" -> AlbumPositionWire
      [] cls = "DateFilter" -> DateFilterInputs

NotRun == Raise("none")

\* record = Cls(mapping)
RecordInit(cls, mapping) ==
    /\ call' = [op |-> "construct", cls |-> cls, arg |-> mapping,
                built |-> New(cls, mapping.v), out |-> NotRun, json |-> "none"]
    /\ UNCHANGED <<gen, reqs, resps, results, asks>>

\* data = to_dict(record)
ToDict ==
    /\ call.op = "construct"
    /\ call.built.ok
    /\ call' = [call EXCEPT !.op = "to_dict",
                            !.out = IF ToDictFails(call.built.val)
                                    THEN Raise("AttributeError")
                                    ELSE Ok(to_dict(call.built.val))]
    /\ UNCHANGED <<gen, reqs, resps, results, asks>>

\* json.dumps(data)
JsonDumps ==
    /\ call.op = "to_dict"
    /\ call.out.ok
    /\ call' = [call EXCEPT !.op = "json.dumps",
                            !.json = IF JsonDumpsFails(call.out.val) THEN "TypeError"
                                     ELSE "encoded"]
    /\ UNCHANGED <<gen, reqs, resps, results, asks>>

NextTypes ==
    \/ \E cls \in RecordClasses : \E mapping \in RecordInputs(cls) : RecordInit(cls, mapping)
    \/ ToDict
    \/ JsonDumps

SpecTypes == Init /\ [][NextTypes]_vars

---------------------------------------------------------------------------
(* Creating media items: mediaItems.batchCreate *)

MediaItemsBatchCreate == "mediaItems.batchCreate"

\* The new media items a caller holds: each was built by NewMediaItem.__init__.
NewMediaItemInputs ==
    {NewMediaItemInit(NewItemDescribed(n, PyDict([upload_token |-> S1("u")])).v).val :
        n \in 0..2}
NewMediaItemLists ==
    {<<>>} \cup {<<x>> : x \in NewMediaItemInputs}
           \cup {<<x, y>> : x \in NewMediaItemInputs, y \in NewMediaItemInputs}

\* The album positions a caller holds: none, or one built by
\* AlbumPosition.__init__.
AlbumPositionInputs ==
    {PyNone,
     AlbumPositionInit([position |-> PyStr(<<"FIRST_IN_ALBUM">>)]).val,
     AlbumPositionInit([position |-> PyStr(<<"AFTER_MEDIA_ITEM">>),
                        relativeMediaItemId |-> S1("m")]).val}

\* What execute() hands back to batch_create: a mapping, or it raises.
WireStatus == PyDict([code |-> PyInt(3), message |-> S1("e"), details |-> PyDict(EmptyMap)])
WireResults(new_media_item_results) ==
    PyDict([newMediaItemResults |-> PyList(new_media_item_results)])
BatchCreateResponses ==
    {HttpError, PyDict(EmptyMap), WireResults(<<>>),
     WireResults(<<PyDict([uploadToken |-> S1("u"), mediaItem |-> WireMediaItem("a")])>>),
     WireResults(<<PyDict([uploadToken |-> S1("u"), status |-> WireStatus])>>),
     WireResults(<<PyDict([uploadToken |-> S1("u"), mediaItem |-> WireMediaItem("a")]),
                   PyDict([uploadToken |-> S1("u"),
                           mediaItem |-> WireMediaItemNoContributor])>>)}

\* A position that is sent whenever one is given.
AlbumPositionSentAlone(album_id, album_position) == Truthy(album_position)

\* if album_id and album_position:
AlbumPositionSent(album_id, album_position) == Truthy(album_id) /\ Truthy(album_position)

\* if album_id:
AlbumIdSent(album_id) == Truthy(album_id)

\* body_dict = {'newMediaItems': [to_dict(new_media_item) for ...]}, updated
\* with 'albumId' and 'albumPosition'.
BatchCreateBody(new_media_items, album_position, album_id) ==
    [key \in {"newMediaItems"}
            \cup (IF AlbumIdSent(album_id) THEN {"albumId"} ELSE {})
            \cup (IF AlbumPositionSent(album_id, album_position) THEN {"albumPosition"}
                  ELSE {}) |->
        CASE key = "newMediaItems" ->
                PyList([k \in 1..Len(new_media_items) |-> to_dict(new_media_items[k])])
          [] key = "albumId" -> album_id
          [] key = "albumPosition" -> to_dict(album_position)]

\* [NewMediaItemResult(r) for r in response['newMediaItemResults']]
DecodeNewMediaItemResults(response) ==
    IF response = HttpError THEN Raise("HttpError")
    ELSE IF "newMediaItemResults" \notin DOMAIN response.v THEN Raise("KeyError")
    ELSE ListOf([k \in 1..Len(response.v["newMediaItemResults"].v) |->
                    NewMediaItemResultInit(response.v["newMediaItemResults"].v[k].v)])

\* GooglePhotosMediaItemAPIClient.batch_create(new_media_items, album_position,
\* album_id)
BatchCreate(new_media_items, album_position, album_id, response) ==
    LET frame == [op |-> MediaItemsBatchCreate, new_media_items |-> new_media_items,
                  album_position |-> album_position, album_id |-> album_id,
                  net |-> <<>>, warned |-> FALSE, outcome |-> "running", val |-> PyNone]
        body_dict == BatchCreateBody(new_media_items, album_position, album_id)
        warned == Truthy(album_position) /\ IsNone(album_id)
        decoded == DecodeNewMediaItemResults(response)
    IN  /\ call' =
            IF \/ \E k \in 1..Len(new_media_items) : ToDictFails(new_media_items[k])
               \/ AlbumPositionSent(album_id, album_position) /\ ToDictFails(album_position)
            THEN [frame EXCEPT !.outcome = "AttributeError"]
            ELSE IF JsonDumpsFails(PyDict(body_dict))
            THEN [frame EXCEPT !.outcome = "TypeError", !.warned = warned]
            ELSE [frame EXCEPT
                    !.net = <<[api |-> MediaItemsBatchCreate, body |-> PyDict(body_dict)]>>,
                    !.warned = warned,
                    !.outcome = IF decoded.ok THEN "returned" ELSE decoded.err,
                    !.val = decoded.val]
        /\ UNCHANGED <<gen, reqs, resps, results, asks>>

NextCreate ==
    \E new_media_items \in NewMediaItemLists, album_position \in AlbumPositionInputs,
       album_id \in AlbumIds, response \in BatchCreateResponses :
        BatchCreate(new_media_items, album_position, album_id, response)

SpecCreate == Init /\ [][NextCreate]_vars

---------------------------------------------------------------------------
(* Authentication: authenticate() and the service builder around it *)

\* A Credentials object: whether it is valid, whether it has expired and
\* whether it carries a refresh token.
Credentials(valid, expired, refresh_token) ==
    [t |-> "Credentials", valid |-> valid, expired |-> expired,
     refresh_token |-> refresh_token]

\* What settings.TOKEN_FILE holds: nothing, something that is not a stored
\* credential, or a credential that is valid, that has only expired, or that
\* has no access token at all.
TokenFiles ==
    {[t |-> "missing"], [t |-> "malformed"],
     Credentials(TRUE, FALSE, TRUE), Credentials(TRUE, FALSE, FALSE),
     Credentials(FALSE, TRUE, TRUE), Credentials(FALSE, TRUE, FALSE),
     Credentials(FALSE, FALSE, TRUE), Credentials(FALSE, FALSE, FALSE)}

\* settings.CLIENT_SECRET_FILE is there or not.
ClientSecretFiles == {"present", "missing"}

\* What credentials.refresh(Request()) does: it refreshes, or the server
\* refuses the refresh token and it raises.
RefreshOutcomes == {"refreshed", "RefreshError"}

\* What flow.run_local_server(port=0) does: it returns the credential of
\* the user who logged in, returns nothing, or raises.
LoginOutcomes == {"credentials", "None", "OAuth2Error"}

\* GooglePhotosAPIServiceBuilder.__init__:
\*     except GoogleApiAuthError as error: raise GooglePhotosAPIError(...)
Surfaced(via_builder, error) ==
    IF via_builder /\ error = "GoogleApiAuthError" THEN "GooglePhotosAPIError" ELSE error

\* The two copies of authenticate(): the one of the package reads its paths
\* from settings, the script at the top of the repository from the
\* environment.
Package == "google_photos_api_client/google_auth.py"
Script == "google_auth.py"
Versions == {Package, Script}

TokenFileName == "token.json"
ClientSecretFileName == "client_secret.json"
\* The directories CREDENTIALS_DIR_PATH names: the one of settings.py, or
\* the working directory.
CredentialsDirs == {"credentials", "."}

\* Path(directory) / Path(name), as a tuple of path components.
JoinPath(directory, name) == IF directory = "." THEN <<name>> ELSE <<directory, name>>
\* path.name: the last component alone, a path relative to the working
\* directory.
PathName(path) == <<path[Len(path)]>>

\* The files authenticate() may touch.
AllPaths ==
    {JoinPath(directory, name) :
        directory \in CredentialsDirs, name \in {TokenFileName, ClientSecretFileName}}

\* The token file of the working directory, when it is not the configured one.
OtherTokenFiles ==
    {[t |-> "missing"], Credentials(TRUE, FALSE, TRUE), Credentials(FALSE, TRUE, TRUE)}

\* The file systems authenticate() is started in.
FileSystems ==
    {[path \in AllPaths |->
        CASE path = <<"credentials", TokenFileName>> -> token_file
          [] path = <<TokenFileName>> -> other_token_file
          [] path = <<"credentials", ClientSecretFileName>> -> client_secret_file
          [] path = <<ClientSecretFileName>> -> other_client_secret_file] :
      token_file \in TokenFiles, other_token_file \in OtherTokenFiles,
      client_secret_file \in ClientSecretFiles,
      other_client_secret_file \in ClientSecretFiles}

\* settings.TOKEN_FILE, or Path(CONF['CREDENTIALS_DIR_PATH']) / Path(CONF['TOKEN_FILE_NAME'])
token_file_path(frame) ==
    IF frame.version = Package THEN JoinPath("credentials", TokenFileName)
    ELSE JoinPath(frame.dir, TokenFileName)

\* settings.CLIENT_SECRET_FILE, or
\* Path(CONF['CREDENTIALS_DIR_PATH']) / Path(CONF['CLIENT_SECRET_FILE_NAME'])
client_secret_file_path(frame) ==
    IF frame.version = Package THEN JoinPath("credentials", ClientSecretFileName)
    ELSE JoinPath(frame.dir, ClientSecretFileName)

\* The path handed to Credentials.from_authorized_user_file:
\* str(settings.TOKEN_FILE) in the package, token_file_path.name in the script.
TokenLoadPath(frame) ==
    IF frame.version = Package THEN token_file_path(frame)
    ELSE PathName(token_file_path(frame))

\* The path handed to InstalledAppFlow.from_client_secrets_file:
\* str(settings.CLIENT_SECRET_FILE), or client_secret_file_path.name.
ClientSecretLoadPath(frame) ==
    IF frame.version = Package THEN client_secret_file_path(frame)
    ELSE PathName(client_secret_file_path(frame))

\* The frame of an authenticate() that is left by an exception.
Raised(frame, error) ==
    [frame EXCEPT !.pc = "done", !.raised = error,
                  !.outcome = Surfaced(frame.via_builder, error)]

\* authenticate() is left by an exception.
AuthRaise(error) == call' = Raised(call, error)

\* authenticate() is called, by the service builder or directly.
Authenticate(version, via_builder, dir, fs) ==
    /\ call.op = "authenticate" => call.pc = "done"
    /\ call' = [op |-> "authenticate", version |-> version, via_builder |-> via_builder,
                dir |-> dir, fs |-> fs, before |-> fs,
                pc |-> "load", credentials |-> PyNone, loaded |-> PyNone,
                raised |-> "none", outcome |-> "running",
                refreshes |-> 0, logins |-> 0,
                checked_path |-> <<>>, loaded_path |-> <<>>, written_path |-> <<>>,
                secret_path |-> <<>>]
    /\ UNCHANGED <<gen, reqs, resps, results, asks>>

\* if token_file_path.exists():
\*     credentials = Credentials.from_authorized_user_file(<path>, scopes)
AuthLoad ==
    /\ call.op = "authenticate"
    /\ call.pc = "load"
    /\ LET checked == [call EXCEPT !.checked_path = token_file_path(call)]
           path == TokenLoadPath(call)
           opened == [checked EXCEPT !.loaded_path = path]
       IN  IF call.fs[token_file_path(call)].t = "missing"
           THEN call' = [checked EXCEPT !.pc = "check"]
           ELSE IF call.fs[path].t = "missing"
           THEN call' = Raised(opened, "FileNotFoundError")
           ELSE IF call.fs[path].t = "malformed"
           THEN call' = Raised(opened, "ValueError")
           ELSE call' = [opened EXCEPT !.pc = "check", !.credentials = call.fs[path],
                                       !.loaded = call.fs[path]]
    /\ UNCHANGED <<gen, reqs, resps, results, asks>>

\* A check that sends every stored credential that is not valid to the login.
AuthCheckNeverRefreshes ==
    /\ call.op = "authenticate"
    /\ call.pc = "check"
    /\ IF Truthy(call.credentials) /\ call.credentials.valid
       THEN call' = [call EXCEPT !.pc = "save"]
       ELSE call' = [call EXCEPT !.pc = "login", !.credentials = PyNone]
    /\ UNCHANGED <<gen, reqs, resps, results, asks>>

\* if credentials: if not credentials.valid: ... ; if not credentials: ...
AuthCheck ==
    /\ call.op = "authenticate"
    /\ call.pc = "check"
    /\ IF Truthy(call.credentials) /\ ~call.credentials.valid
       THEN IF call.credentials.expired /\ call.credentials.refresh_token
            THEN call' = [call EXCEPT !.pc = "refresh"]
            ELSE call' = [call EXCEPT !.pc = "login", !.credentials = PyNone]
       ELSE IF Truthy(call.credentials) THEN call' = [call EXCEPT !.pc = "save"]
       ELSE call' = [call EXCEPT !.pc = "login"]
    /\ UNCHANGED <<gen, reqs, resps, results, asks>>

\* credentials.refresh(Request())
AuthRefresh(outcome) ==
    /\ call.op = "authenticate"
    /\ call.pc = "refresh"
    /\ LET tried == [call EXCEPT !.refreshes = @ + 1]
       IN  IF outcome = "RefreshError" THEN call' = Raised(tried, "RefreshError")
           ELSE call' = [tried EXCEPT !.pc = "save",
                                      !.credentials = Credentials(TRUE, FALSE, TRUE)]
    /\ UNCHANGED <<gen, reqs, resps, results, asks>>

\* flow = InstalledAppFlow.from_client_secrets_file(<path>, scopes)
\* credentials = flow.run_local_server(port=0)
AuthLogin(outcome) ==
    /\ call.op = "authenticate"
    /\ call.pc = "login"
    /\ LET path == ClientSecretLoadPath(call)
           tried == [call EXCEPT !.logins = @ + 1, !.secret_path = path]
       IN  IF call.fs[path] = "missing" THEN call' = Raised(tried, "FileNotFoundError")
           ELSE IF outcome = "OAuth2Error" THEN call' = Raised(tried, "OAuth2Error")
           ELSE call' = [tried EXCEPT !.pc = "save",
                                      !.credentials = IF outcome = "None" THEN PyNone
                                                      ELSE Credentials(TRUE, FALSE, TRUE)]
    /\ UNCHANGED <<gen, reqs, resps, results, asks>>

\* A save that writes the token file only after a login.
AuthSaveAfterLoginOnly ==
    /\ call.op = "authenticate"
    /\ call.pc = "save"
    /\ IF Truthy(call.credentials)
       THEN call' = [call EXCEPT
                        !.pc = "done", !.outcome = "returned",
                        !.fs = IF call.logins = 0 THEN @
                               ELSE [@ EXCEPT ![token_file_path(call)] = call.credentials]]
       ELSE AuthRaise("GoogleApiAuthError")
    /\ UNCHANGED <<gen, reqs, resps, results, asks>>

\* if credentials: with token_file_path.open('w') as token_file:
\*     token_file.write(credentials.to_json())
\* else: raise GoogleApiAuthError;  return credentials
AuthSave ==
    /\ call.op = "authenticate"
    /\ call.pc = "save"
    /\ IF Truthy(call.credentials)
       THEN call' = [call EXCEPT
                        !.pc = "done", !.outcome = "returned",
                        !.written_path = token_file_path(call),
                        !.fs = [@ EXCEPT ![token_file_path(call)] = call.credentials]]
       ELSE AuthRaise("GoogleApiAuthError")
    /\ UNCHANGED <<gen, reqs, resps, results, asks>>

NextAuth ==
    \/ \E version \in Versions, via_builder \in BOOLEAN, dir \in CredentialsDirs,
          fs \in FileSystems :
            /\ version = Package => dir = "credentials"
            /\ Authenticate(version, via_builder, dir, fs)
    \/ AuthLoad
    \/ AuthCheck
    \/ \E outcome \in RefreshOutcomes : AuthRefresh(outcome)
    \/ \E outcome \in LoginOutcomes : AuthLogin(outcome)
    \/ AuthSave

SpecAuth == Init /\ [][NextAuth]_vars

---------------------------------------------------------------------------
(* Reading the logs *)

\* The pages generator i has yielded, in order.
IsPage(r) == r.kind = "page"
Pages(i) == SelectSeq(results[i], IsPage)

LastResp(i) == resps[i][Len(resps[i])]
RespHasToken(r) == r.t = "dict" /\ "nextPageToken" \in DOMAIN r.v
RespToken(r) == IF RespHasToken(r) THEN r.v["nextPageToken"] ELSE PyNone
RespHasItems(api, r) ==
    /\ r.t = "dict"
    /\ ItemsKey(api) \in DOMAIN r.v
    /\ Len(r.v[ItemsKey(api)].v) > 0
RespItems(api, r) == r.v[ItemsKey(api)].v
\* Requests sent and not yet answered.
InFlight(i) == Len(reqs[i]) - Len(resps[i])
\* Page k of generator i carries the items of response n, in order.
PageIsOfResponse(i, k, n) ==
    LET page == Pages(i)[k]
        items == RespItems(gen[i].api, resps[i][n])
    IN  /\ page.resp = n
        /\ Len(page.page.v) = Len(items)
        /\ \A j \in 1..Len(items) : page.page.v[j].v.id = items[j].v["id"]

---------------------------------------------------------------------------
(* C1: pages yielded by a complete iteration *)

---------------------------------------------------------------------------
(* C2: the iteration ends exactly on a response without nextPageToken *)

C2_State(i) ==
    \* exhausted only after a response that carried no token
    /\ gen[i].pc = "done" =>
          resps[i] # <<>> /\ LastResp(i).t = "dict" /\ ~RespHasToken(LastResp(i))
    \* once a response carried no token, nothing is in flight and the
    \* generator is at its last yield or finished
    /\ (resps[i] # <<>> /\ LastResp(i).t = "dict" /\ ~RespHasToken(LastResp(i))) =>
          InFlight(i) = 0 /\ gen[i].pc \in {"suspended", "done", "raised"}
    \* the server omits the token by its MaxPages-th response, and no fetch
    \* goes beyond it
    /\ Len(reqs[i]) <= MaxPages

C2_Step(i) ==
    \* a response with a token and no items: the next fetch follows at once
    /\ (resps'[i] # resps[i] /\ RespHasToken(LastResp(i)')
            /\ ~RespHasItems(gen[i].api, LastResp(i)')) =>
          /\ Len(reqs'[i]) = Len(reqs[i]) + 1
          /\ gen'[i].pc = "fetching"
    \* a response with a token never exhausts the iterator
    /\ (resps'[i] # resps[i] /\ RespHasToken(LastResp(i)')) => gen'[i].pc # "done"
    \* a response without token and without items exhausts it at once
    /\ (resps'[i] # resps[i] /\ LastResp(i)'.t = "dict" /\ ~RespHasToken(LastResp(i)')
            /\ ~RespHasItems(gen[i].api, LastResp(i)')) => gen'[i].pc = "done"
    \* after a response without token: no further fetch, and the next request
    \* for a page finds the iterator exhausted
    /\ (resps[i] # <<>> /\ LastResp(i).t = "dict" /\ ~RespHasToken(LastResp(i))) =>
          /\ reqs'[i] = reqs[i]
          /\ resps'[i] = resps[i]
          /\ asks'[i] # asks[i] =>
                /\ gen'[i].pc \in {"done", "raised"}
                /\ results'[i] = Append(results[i], RaiseResult("StopIteration"))

\* C2: list/search stop exactly on a response without nextPageToken: a
\* response with a token and zero items is followed by another fetch, a
\* response with a token never exhausts the iterator, and after a response
\* without token no fetch is issued and the iterator is exhausted; the number
\* of fetches never exceeds the index of the first response without token.
C2_EndsExactlyOnMissingToken ==
    /\ [](\A i \in IterIds : C2_State(i))
    /\ [][\A i \in IterIds : C2_Step(i)]_vars

\* An empty response with a token was answered by a second fetch, whose
\* token-less response exhausted the iterator.
C2_Witness ==
    /\ gen[1].pc = "done"
    /\ Len(resps[1]) = 2
    /\ RespHasToken(resps[1][1])
    /\ ~RespHasItems(gen[1].api, resps[1][1])
    /\ Len(reqs[1]) = 2

---------------------------------------------------------------------------
(* C3: laziness *)

C3_State(i) ==
    \* calling list/search issues no fetch
    /\ gen[i].pc \in {"unused", "created"} => reqs[i] = <<>>
    \* at most one fetch is outstanding, and only inside a next() call
    /\ InFlight(i) \in {0, 1}
    /\ InFlight(i) = 1 <=> gen[i].pc = "fetching"
    /\ asks[i] = Len(results[i]) + InFlight(i)

C3_Step(i) ==
    \* a fetch is issued only by a step of a next() call: the step that
    \* starts the call, or one that continues it after a response
    /\ reqs'[i] # reqs[i] =>
          /\ Len(reqs'[i]) = Len(reqs[i]) + 1
          /\ asks'[i] = asks[i] + 1 \/ (gen[i].pc = "fetching" /\ resps'[i] # resps[i])
    \* while the caller does not ask for the next page, nothing is fetched
    /\ (gen[i].pc \in {"created", "suspended"} /\ asks'[i] = asks[i]) => reqs'[i] = reqs[i]

\* C3: pagination is lazy: calling list/search issues no fetch, a fetch is
\* issued only while a next() of the caller is in progress, at most one fetch
\* is outstanding, and while the caller does not ask for another page no
\* fetch is issued.
C3_Lazy ==
    /\ [](\A i \in IterIds : C3_State(i))
    /\ [](Cardinality({i \in IterIds : InFlight(i) > 0}) <= 1)
    /\ [][\A i \in IterIds : C3_Step(i)]_vars

\* The caller holds page 1, whose token says there is more, and has not
\* asked again: one fetch was made.
C3_Witness ==
    /\ gen[1].pc = "suspended"
    /\ Len(Pages(1)) = 1
    /\ ~IsNone(gen[1].next_page_token)
    /\ Len(reqs[1]) = 1
    /\ asks[1] = 1

---------------------------------------------------------------------------
(* C4: the token chain *)

ReqToken(r) == r.params["pageToken"]

\* C4: the first fetch carries the caller's page_token (None when none was
\* given), every later fetch carries the nextPageToken of the response just
\* before it, and the token yielded with a page is the nextPageToken of the
\* response that carried the page.
C4_TokenChain ==
    \A i \in IterIds :
        /\ \A k \in 1..Len(reqs[i]) :
              ReqToken(reqs[i][k]) =
                  IF k = 1 THEN gen[i].page_token ELSE RespToken(resps[i][k - 1])
        /\ \A k \in 1..Len(Pages(i)) :
              /\ Pages(i)[k].resp \in 1..Len(resps[i])
              /\ PageIsOfResponse(i, k, Pages(i)[k].resp)
              /\ Pages(i)[k].token = RespToken(resps[i][Pages(i)[k].resp])

\* Three fetches: the caller's token, then two different server tokens.
C4_Witness ==
    /\ Len(reqs[1]) = 3
    /\ gen[1].page_token = Tok1
    /\ ReqToken(reqs[1][2]) = Tok2
    /\ ReqToken(reqs[1][3]) = Tok1
    /\ Len(Pages(1)) >= 1

---------------------------------------------------------------------------
(* C5: the page size bound *)

\* The first next() got past every check that precedes the first fetch.
PassesOtherChecks(g) ==
    g.api = MediaItemsSearch =>
        /\ ~(Truthy(g.album_id) /\ ~IsNone(g.filters))
        /\ IsNone(g.filters) \/ g.filters = FiltersEmpty

\* C5: a page size above the maximum (50 for the album lists, 100 for the
\* media item list and search) fails with GooglePhotosAPIError and the
\* iteration never fetches; a page size equal to the maximum is accepted
\* and the first fetch carries it.
C5_PageSizeBound ==
    \A i \in IterIds :
        LET g == gen[i]
            max == IF g.api \in {AlbumsList, SharedAlbumsList} THEN 50 ELSE 100
        IN  g.pc # "unused" =>
              /\ g.page_size > max =>
                    /\ reqs[i] = <<>>
                    /\ asks[i] >= 1 => results[i][1] = RaiseResult("GooglePhotosAPIError")
              /\ (g.page_size = max /\ asks[i] >= 1 /\ PassesOtherChecks(g)) =>
                    /\ Len(reqs[i]) >= 1
                    /\ reqs[i][1].params["pageSize"] = PyInt(max)

\* albums.list(page_size=51) was asked for its first page and raised.
C5_Witness ==
    /\ gen[1].api = AlbumsList
    /\ gen[1].page_size = 51
    /\ gen[1].pc = "raised"
    /\ asks[1] >= 1
    /\ reqs[1] = <<>>

---------------------------------------------------------------------------
(* C6: a transport error *)

C6_State(i) ==
    \A k \in 1..Len(resps[i]) :
        resps[i][k] = HttpError =>
            \* the failed fetch is the last one: not re-issued, none after it
            /\ k = Len(resps[i])
            /\ Len(reqs[i]) = k
            /\ gen[i].pc = "raised"
            \* no page for the failed fetch
            /\ \A j \in 1..Len(Pages(i)) : Pages(i)[j].resp < k

C6_Step(i) ==
    \* the error reaches the caller as the result of the next() in progress
    /\ (resps'[i] # resps[i] /\ LastResp(i)' = HttpError) =>
          /\ results'[i] = Append(results[i], RaiseResult("HttpError"))
          /\ Len(results'[i]) = asks[i]
          /\ reqs'[i] = reqs[i]
    \* what was yielded before stays as it was
    /\ Len(results'[i]) >= Len(results[i])
    /\ SubSeq(results'[i], 1, Len(results[i])) = results[i]
    \* after the error: no fetch, no page
    /\ (resps[i] # <<>> /\ LastResp(i) = HttpError) =>
          /\ reqs'[i] = reqs[i]
          /\ resps'[i] = resps[i]
          /\ Pages(i)' = Pages(i)

\* C6: a transport error during list/search reaches the caller as the
\* result of the page request in progress; the failed request is not
\* re-issued, the iteration fetches nothing more and yields no page for the
\* failed fetch, and the pages yielded before are unaffected.
C6_TransportErrorPropagates ==
    /\ [](\A i \in IterIds : C6_State(i))
    /\ [][\A i \in IterIds : C6_Step(i)]_vars

\* One page was yielded, the second fetch failed, and the caller asked again.
C6_Witness ==
    /\ Len(resps[1]) = 2
    /\ resps[1][2] = HttpError
    /\ Len(Pages(1)) = 1
    /\ gen[1].asked_after_end
    /\ Len(reqs[1]) = 2

---------------------------------------------------------------------------
(* C10: search takes an album id or filters, not both *)

\* C10: search with an album id (a non-empty string) and a Filters object
\* fails on its first page request with GooglePhotosAPIError and never
\* fetches; with only an album id, only filters or neither, the first page
\* request does not fail this check (with a page size within the bound, it
\* does not raise GooglePhotosAPIError).
C10_AlbumIdExcludesFilters ==
    \A i \in IterIds :
        LET g == gen[i]
            both == (g.album_id.t = "str" /\ Len(g.album_id.v) > 0) /\ ~IsNone(g.filters)
        IN  g.api = MediaItemsSearch =>
              /\ both =>
                    /\ reqs[i] = <<>>
                    /\ asks[i] >= 1 => results[i][1] = RaiseResult("GooglePhotosAPIError")
              /\ (~both /\ asks[i] >= 1 /\ g.page_size <= 100 /\ Len(results[i]) >= 1) =>
                    results[i][1].err # "GooglePhotosAPIError"
              /\ (~both /\ asks[i] >= 1 /\ g.page_size <= 100 /\ PassesOtherChecks(g)) =>
                    Len(reqs[i]) >= 1

\* search(album_id='a', filters=Filters({})) was asked for a page and raised.
C10_Witness ==
    /\ gen[1].api = MediaItemsSearch
    /\ gen[1].album_id = PyStr(<<"a">>)
    /\ gen[1].filters = FiltersEmpty
    /\ asks[1] = 1
    /\ gen[1].pc = "raised"
    /\ results[1] = <<RaiseResult("GooglePhotosAPIError")>>

---------------------------------------------------------------------------
(* C7, C8, C9: the batch calls of the album client *)

HasRepeatedId(ids) == \E j, k \in 1..Len(ids) : j < k /\ ids[j] = ids[k]

\* C7: batch_remove_media_items rejects with GooglePhotosAPIError, and without
\* a network call, every id list that is empty, longer than 50 or that
\* repeats an id.
C7_RemoveRejectsBadLists ==
    LET ids == call.media_item_ids
    IN  (call.op = "batch_remove_media_items"
            /\ (Len(ids) = 0 \/ Len(ids) > 50 \/ HasRepeatedId(ids))) =>
          /\ call.outcome = "GooglePhotosAPIError"
          /\ call.net = <<>>

\* C8: batch_remove_media_items with 1 to 50 pairwise distinct ids passes
\* validation and issues exactly one network call, whose body carries the
\* ids in the order given.
C8_RemoveSendsDistinctIds ==
    LET ids == call.media_item_ids
    IN  (call.op = "batch_remove_media_items"
            /\ Len(ids) \in 1..50 /\ ~HasRepeatedId(ids)) =>
          /\ call.outcome # "GooglePhotosAPIError"
          /\ Len(call.net) = 1
          /\ call.net[1].body.mediaItemIds = PyList(ids)

\* C9: batch_add_media_items issues its network call if and only if the list
\* has 1 to 50 ids: other lists are rejected with GooglePhotosAPIError before
\* any call, and a list of 1 to 50 ids gives exactly one request carrying the
\* ids in the order given.
C9_AddCallsIffOneToFifty ==
    LET ids == call.media_item_ids
    IN  call.op = "batch_add_media_items" =>
          /\ Len(ids) \in 1..50 <=> Len(call.net) = 1
          /\ Len(ids) \notin 1..50 =>
                call.outcome = "GooglePhotosAPIError" /\ call.net = <<>>
          /\ Len(ids) \in 1..50 => call.net[1].body.mediaItemIds = PyList(ids)

---------------------------------------------------------------------------
(* C11, C12, C13: patch and create *)

\* Every comma-separated name of the mask, trimmed, is an allowed album field.
MaskNamesAllowed(update_mask) ==
    \A k \in 1..Len(split(update_mask, ",")) :
        strip(split(update_mask, ",")[k]) \in {Title, CoverPhotoMediaItemId}

\* C11: albums.patch accepts an update mask if and only if each of its
\* comma-separated names, trimmed, is title or coverPhotoMediaItemId: another
\* mask is rejected with GooglePhotosAPIError before any network call, and an
\* accepted mask leads to exactly one network call.
C11_AlbumPatchMaskAllowList ==
    call.op = "albums.patch" =>
        /\ ~MaskNamesAllowed(call.update_mask) =>
              call.outcome = "GooglePhotosAPIError" /\ call.net = <<>>
        /\ MaskNamesAllowed(call.update_mask) =>
              call.outcome # "GooglePhotosAPIError" /\ Len(call.net) = 1

\* C12: media_items.patch issues its network call if and only if the update
\* mask is exactly 'description'; any other mask is rejected with
\* GooglePhotosAPIError before any network call.
C12_MediaItemPatchMaskIsDescription ==
    call.op = "mediaItems.patch" =>
        /\ call.update_mask = Description <=> Len(call.net) = 1
        /\ call.update_mask # Description =>
              call.outcome = "GooglePhotosAPIError" /\ call.net = <<>>
        /\ call.update_mask = Description =>
              /\ call.outcome # "GooglePhotosAPIError"
              /\ call.net[1].api = "mediaItems.patch"
              /\ call.net[1].id = call.arg.v.id

\* A patch with the mask 'description' was sent and its response decoded.
C12_Witness ==
    /\ call.op = "mediaItems.patch"
    /\ call.update_mask = Description
    /\ Len(call.net) = 1
    /\ call.outcome = "returned"
    /\ call.val.t = "object"

\* C13: albums.create(album) issues exactly one network call whose body is
\* {'album': <the serialized album>} and returns the Album decoded from the
\* response; serializing the album never fails.
C13_AlbumCreateSendsSerializedAlbum ==
    call.op = "albums.create" =>
        /\ call.outcome \notin {"AttributeError", "TypeError"}
        /\ Len(call.net) = 1
        /\ DOMAIN call.net[1].body.v = {"album"}
        /\ call.net[1].body.v["album"].t = "dict"
        /\ call.outcome = "returned" => call.val.cls = "Album"

---------------------------------------------------------------------------
(* C14, C15, C16: the serializer *)

\* A value json.dumps encodes: no Enum member and no object at any depth.
RECURSIVE OnlyJsonValues(_)
OnlyJsonValues(x) ==
    CASE x.t \in {"NoneType", "str", "int", "float", "bool"} -> TRUE
      [] x.t \in {"list", "tuple"} -> \A k \in 1..Len(x.v) : OnlyJsonValues(x.v[k])
      [] x.t = "dict" -> \A key \in DOMAIN x.v : OnlyJsonValues(x.v[key])
      [] OTHER -> FALSE

\* C14: the mapping to_dict produces holds, at every depth and inside its
\* sequences too, only JSON-compatible values (records as mappings, enum
\* members as their string), so that it can always be encoded as JSON.
C14_ToDictOnlyJsonValues ==
    (call.op \in {"to_dict", "json.dumps"} /\ call.out.ok) =>
        /\ OnlyJsonValues(call.out.val)
        /\ call.json # "TypeError"

\* out is the mapping of record obj: its keys are the camel-case names of the
\* attributes of obj that are not None, and so for every record obj holds,
\* directly or in a sequence.
RECURSIVE MappingOf(_, _)
MappingOf(obj, out) ==
    LET set == {key \in DOMAIN obj.v : ~IsNone(obj.v[key])}
    IN  /\ out.t = "dict"
        /\ DOMAIN out.v = {snake_case_to_camel_case(key) : key \in set}
        /\ \A key \in set :
              LET value == obj.v[key]
                  emitted == out.v[snake_case_to_camel_case(key)]
              IN  /\ ~IsNone(emitted)
                  /\ value.t = "object" => MappingOf(value, emitted)
                  /\ value.t = "list" =>
                        /\ emitted.t = "list"
                        /\ Len(emitted.v) = Len(value.v)
                        /\ \A k \in 1..Len(value.v) :
                              value.v[k].t = "object" => MappingOf(value.v[k], emitted.v[k])

\* C15: to_dict emits no key whose value is None: a field of the record, or
\* of any record nested in it, is in the output if and only if its value is
\* not None, under the camel-case form of its attribute name.
C15_ToDictKeysAreTheSetFields ==
    (call.op \in {"to_dict", "json.dumps"} /\ call.out.ok) =>
        MappingOf(call.built.val, call.out.val)

\* The mapping without its absent (None) fields, at every depth.
RECURSIVE NonAbsent(_)
NonAbsent(x) ==
    CASE x.t = "dict" ->
            PyDict([key \in {k \in DOMAIN x.v : ~IsNone(x.v[k])} |-> NonAbsent(x.v[key])])
      [] x.t = "list" -> PyList([k \in 1..Len(x.v) |-> NonAbsent(x.v[k])])
      [] OTHER -> x

\* a == b of Python: a number is compared by value, int or float.
RECURSIVE SameValue(_, _)
SameValue(a, b) ==
    CASE a.t \in {"int", "float"} /\ b.t \in {"int", "float"} -> a.v = b.v
      [] a.t = "dict" /\ b.t = "dict" ->
            /\ DOMAIN a.v = DOMAIN b.v
            /\ \A key \in DOMAIN a.v : SameValue(a.v[key], b.v[key])
      [] a.t = "list" /\ b.t = "list" ->
            /\ Len(a.v) = Len(b.v)
            /\ \A k \in 1..Len(a.v) : SameValue(a.v[k], b.v[k])
      [] OTHER -> a = b

\* C16: for a record built from a mapping, to_dict of the record equals the
\* mapping restricted to its non-absent fields: same camel-case keys, same
\* values.
C16_ConstructThenSerializeRoundTrips ==
    call.op \in {"to_dict", "json.dumps"} =>
        /\ call.out.ok
        /\ SameValue(call.out.val, NonAbsent(call.arg))

---------------------------------------------------------------------------
(* C17, C18, C19: what the constructors enforce *)

AlbumKeys ==
    {"id", "title", "productUrl", "isWritable", "mediaItemsCount",
     "coverPhotoBaseUrl", "coverPhotoMediaItemId"}

\* C17: an Album with its required fields present is built if and only if
\* its title has at most 500 characters, and a NewMediaItem with its required
\* fields present if and only if its description has at most 1000 characters;
\* a longer text fails the construction with TypeError.
C17_LengthBounds ==
    /\ (call.op # "none" /\ call.cls = "Album" /\ AlbumKeys \subseteq DOMAIN call.arg.v) =>
          /\ call.built.ok <=> Len(call.arg.v["title"].v) <= 500
          /\ ~call.built.ok => call.built.err = "TypeError"
    /\ (call.op # "none" /\ call.cls = "NewMediaItem"
            /\ "upload_token" \in DOMAIN call.arg.v["simpleMediaItem"].v) =>
          /\ call.built.ok <=> Len(call.arg.v["description"].v) <= 1000
          /\ ~call.built.ok => call.built.err = "TypeError"

\* A description of 1001 characters was refused.
C17_Witness ==
    /\ call.op = "construct"
    /\ call.cls = "NewMediaItem"
    /\ "upload_token" \in DOMAIN call.arg.v["simpleMediaItem"].v
    /\ Len(call.arg.v["description"].v) = 1001
    /\ call.built = Raise("TypeError")

\* The coordinates of the mapping lat_lng are outside their ranges.
OutsideRanges(lat_lng) ==
    \/ lat_lng.v["latitude"].v < -90
    \/ lat_lng.v["latitude"].v > 90
    \/ lat_lng.v["longitude"].v < -180
    \/ lat_lng.v["longitude"].v > 180

\* C18: building a LatLng fails if and only if its latitude is outside
\* [-90, 90] or its longitude outside [-180, 180], the ends of both ranges
\* being accepted; the failure is that of the Location, LocationEnrichment
\* and MapEnrichment built around it.
C18_LatLngRanges ==
    call.op # "none" =>
        /\ call.cls = "LatLng" =>
              /\ ~call.built.ok <=> OutsideRanges(call.arg)
              /\ ~call.built.ok => call.built.err = "TypeError"
        /\ call.cls = "Location" =>
              /\ ~call.built.ok <=> OutsideRanges(call.arg.v["latlng"])
              /\ ~call.built.ok => call.built.err = "TypeError"
        /\ call.cls = "LocationEnrichment" =>
              /\ ~call.built.ok <=> OutsideRanges(call.arg.v["location"].v["latlng"])
              /\ ~call.built.ok => call.built.err = "TypeError"
        /\ call.cls = "MapEnrichment" =>
              /\ ~call.built.ok <=>
                    \/ OutsideRanges(call.arg.v["origin"].v["latlng"])
                    \/ OutsideRanges(call.arg.v["destination"].v["latlng"])
              /\ ~call.built.ok => call.built.err = "TypeError"

\* A map whose origin lies on the ends of both ranges and whose destination
\* lies outside was refused.
C18_Witness ==
    /\ call.op = "construct"
    /\ call.cls = "MapEnrichment"
    /\ call.arg.v["origin"] = WireLocation(WireLatLng(-90, 180))
    /\ LocationInit(call.arg.v["origin"].v).ok
    /\ OutsideRanges(call.arg.v["destination"].v["latlng"])
    /\ call.built = Raise("TypeError")

\* Whether the built record has its attribute set (assigned and not None).
HasSet(record, attribute) ==
    attribute \in DOMAIN record.v /\ ~IsNone(record.v[attribute])

\* C19: a MediaMetadata that was built has exactly one of photo and video
\* set: given both, it keeps the photo and has no video; given only a
\* video, it keeps the video; given neither, it is not built.
C19_PhotoXorVideo ==
    (call.op # "none" /\ call.cls = "MediaMetadata") =>
        LET photo == Get(call.arg.v, "photo")
            video == Get(call.arg.v, "video")
            record == call.built.val
        IN  /\ call.built.ok => (HasSet(record, "photo") <=> ~HasSet(record, "video"))
            /\ (Truthy(photo) /\ Truthy(video)) =>
                  /\ call.built.ok
                  /\ record.v["photo"] = PhotoInit(photo.v).val
                  /\ ~HasSet(record, "video")
            /\ (~Truthy(photo) /\ Truthy(video)) =>
                  /\ call.built.ok
                  /\ record.v["video"] = VideoInit(video.v).val
                  /\ ~HasSet(record, "photo")
            /\ (~Truthy(photo) /\ ~Truthy(video)) => call.built = Raise("TypeError")

\* Metadata given a photo and a video was built with the photo alone.
C19_Witness ==
    /\ call.op = "construct"
    /\ call.cls = "MediaMetadata"
    /\ Truthy(Get(call.arg.v, "photo"))
    /\ Truthy(Get(call.arg.v, "video"))
    /\ call.built.ok
    /\ HasSet(call.built.val, "photo")
    /\ "video" \notin DOMAIN call.built.val.v

---------------------------------------------------------------------------
(* C20: how authenticate() ends *)

\* C20: authenticate() either returns a credential or fails with
\* GoogleApiAuthError: a run in which the stored credential cannot be used or
\* refreshed and the login gives no credential ends in GoogleApiAuthError,
\* which the service builder reports as GooglePhotosAPIError, and never in a
\* return of no credential.
C20_CredentialOrAuthError ==
    (call.op = "authenticate" /\ call.pc = "done") =>
        \/ /\ call.raised = "none"
           /\ call.outcome = "returned"
           /\ ~IsNone(call.credentials)
        \/ /\ call.raised = "GoogleApiAuthError"
           /\ call.outcome = IF call.via_builder THEN "GooglePhotosAPIError"
                             ELSE "GoogleApiAuthError"

-----------------------------------------------------------------------------
\* C21, C22, C28: the token file, the login and the paths of authenticate()

\* The credential stored in the configured token file of an authenticate().
StoredToken(frame) == frame.fs[token_file_path(frame)]

\* A loaded credential that authenticate() refreshes.
Refreshable(credentials) ==
    Truthy(credentials) /\ ~credentials.valid
        /\ credentials.expired /\ credentials.refresh_token

\* C21: once authenticate() has returned, the configured token file holds the
\* credential it returned, whether that credential was loaded, refreshed or
\* obtained by a login; once it has raised, and as long as it has not
\* returned, every file is as it was when authenticate() was called.
C21_TokenFileHoldsReturnedCredential ==
    call.op = "authenticate" =>
        /\ call.outcome = "returned" =>
              /\ call.pc = "done"
              /\ Truthy(call.credentials)
              /\ StoredToken(call) = call.credentials
        /\ call.outcome # "returned" => call.fs = call.before

\* authenticate() returned a refreshed credential and the token file, which
\* held the expired one, now holds it.
C21_Witness ==
    /\ call.op = "authenticate"
    /\ call.outcome = "returned"
    /\ call.refreshes = 1
    /\ StoredToken(call) = call.credentials
    /\ call.before[token_file_path(call)] # call.credentials

C28_ConfiguredPaths ==
    call.op = "authenticate" =>
        /\ call.checked_path # <<>> => call.checked_path = token_file_path(call)
        /\ call.loaded_path # <<>> => call.loaded_path = token_file_path(call)
        /\ call.written_path # <<>> => call.written_path = token_file_path(call)
        /\ call.secret_path # <<>> => call.secret_path = client_secret_file_path(call)

-----------------------------------------------------------------------------
\* C23: the body of mediaItems.batchCreate

-----------------------------------------------------------------------------
\* C24, C25, C26, C27: what the constructors accept

\* C24: a NewEnrichmentItem that was built has at least one of
\* text_enrichment, location_enrichment and map_enrichment set, and building
\* one fails for every mapping that leaves all three unset (each of the three
\* keys missing, None or empty).
C24_NewEnrichmentItemHasAnEnrichment ==
    call.op # "none" /\ call.cls = "NewEnrichmentItem" =>
        /\ call.built.ok =>
              \E key \in {"text_enrichment", "location_enrichment", "map_enrichment"} :
                  ~IsNone(call.built.val.v[key])
        /\ (\A key \in {"textEnrichment", "locationEnrichment", "mapEnrichment"} :
                ~Truthy(Get(call.arg.v, key))) => ~call.built.ok

\* C25: AlbumPosition accepts every mapping with a valid position and at
\* least one relative id, and stores the ids given, leaving the other absent:
\* in particular AFTER_MEDIA_ITEM with only relativeMediaItemId and
\* AFTER_ENRICHMENT_ITEM with only relativeEnrichmentItemId.
C25_AlbumPositionAcceptsEitherId ==
    call.op # "none" /\ call.cls = "AlbumPosition" =>
        LET relative_media_item_id == Get(call.arg.v, "relativeMediaItemId")
            relative_enrichment_item_id == Get(call.arg.v, "relativeEnrichmentItemId")
        IN  /\ "position" \in DOMAIN call.arg.v
            /\ call.arg.v["position"].v \in PositionType
            /\ Truthy(relative_media_item_id) \/ Truthy(relative_enrichment_item_id)
            => /\ call.built.ok
               /\ call.built.val.v["relative_media_item_id"] = relative_media_item_id
               /\ call.built.val.v["relative_enrichment_item_id"] =
                      relative_enrichment_item_id

\* C26: a MediaItem is built from a mapping that has every required field
\* and no contributorInfo, and its contributor_info is None.
C26_MediaItemWithoutContributorInfo ==
    /\ call.op # "none"
    /\ call.cls = "MediaItem"
    /\ "contributorInfo" \notin DOMAIN call.arg.v
    /\ {"id", "description", "productUrl", "baseUrl", "mimeType", "mediaMetadata",
        "filename"} \subseteq DOMAIN call.arg.v
    => /\ call.built.ok
       /\ IsNone(call.built.val.v["contributor_info"])

\* C27: a DateFilter is built from a mapping that gives dates, ranges or
\* both, each of at most 5 valid entries, and building it fails when dates or
\* ranges has more than 5 entries.
C27_DateFilterBounds ==
    call.op # "none" /\ call.cls = "DateFilter" =>
        LET dates == Get(call.arg.v, "dates")
            ranges == Get(call.arg.v, "ranges")
            CountOf(xs) == IF IsNone(xs) THEN 0 ELSE Len(xs.v)
        IN  /\ CountOf(dates) > MaxDates \/ CountOf(ranges) > MaxRanges => ~call.built.ok
            /\ /\ CountOf(dates) + CountOf(ranges) > 0
               /\ CountOf(dates) <= MaxDates
               /\ CountOf(ranges) <= MaxRanges
               => call.built.ok

-----------------------------------------------------------------------------
\* C30: the update mask on the request

\* C30: the request albums.patch or media_items.patch issues, after the
\* update mask has passed validation, carries that update mask unchanged.
C30_UpdateMaskOnTheRequest ==
    /\ call.op \in {"albums.patch", "mediaItems.patch"}
    /\ Len(call.net) = 1
    => /\ "updateMask" \in DOMAIN call.net[1]
       /\ call.net[1].updateMask = PyStr(call.update_mask)

-----------------------------------------------------------------------------
\* C29: two iterations of one client

\* Every request generator i has sent is its own: of its api, with its page
\* size, with the token of its own chain (the caller's first, then the
\* nextPageToken of its own previous response) and, for search, with the
\* body built from its own arguments.
SendsItsOwn(i) ==
    \A k \in 1..Len(reqs[i]) :
        LET r == reqs[i][k]
            token == IF k = 1 THEN gen[i].page_token ELSE RespToken(resps[i][k - 1])
        IN  /\ r.api = gen[i].api
            /\ r.params["pageSize"] = PyInt(gen[i].page_size)
            /\ r.params["pageToken"] = token
            /\ gen[i].api = MediaItemsSearch =>
                  r.params = UpdatePageToken(SearchBody(gen[i]), token)

\* A step that advances generator i leaves the frame (token, page size,
\* body) and the logs of every other generator as they are.
AdvancesOnlyItself(i) ==
    gen'[i] # gen[i] \/ reqs'[i] # reqs[i] \/ resps'[i] # resps[i] =>
        \A j \in IterIds \ {i} :
            /\ gen'[j] = gen[j]
            /\ reqs'[j] = reqs[j]
            /\ resps'[j] = resps[j]
            /\ results'[j] = results[j]

\* C29: two iterations obtained from separate calls to list or search on one
\* client, advanced in any interleaved order, are independent: each sends
\* only its own token chain and parameters, and advancing one never changes
\* what the other holds for its next fetch.
C29_IterationsAreIndependent ==
    /\ [](\A i \in IterIds : SendsItsOwn(i))
    /\ [][\A i \in IterIds : AdvancesOnlyItself(i)]_vars

\* A list and a search of the media item client are both waiting for their
\* second page, each having sent the token the server gave it: different
\* tokens, different page sizes.
C29_Witness ==
    /\ gen[1].api = MediaItemsList
    /\ gen[2].api = MediaItemsSearch
    /\ gen[1].pc = "fetching"
    /\ gen[2].pc = "fetching"
    /\ Len(reqs[1]) = 2
    /\ Len(reqs[2]) = 2
    /\ gen[1].page_size # gen[2].page_size
    /\ reqs[1][2].params["pageToken"] = Tok1
    /\ reqs[2][2].params["pageToken"] = Tok2
    /\ gen[1].page_token # gen[2].page_token

=============================================================================
